---------------------------- MODULE Spec2Model ----------------------------
(***************************************************************************)
(* The 24 game (randyg111/24): session state machine of the rational-card  *)
(* version of App.tsx (src/unnamed/part_001), replicated through a         *)
(* Firebase realtime database.                                             *)
(*                                                                         *)
(* JavaScript numbers.  A card's num and denom are IEEE doubles.  Every    *)
(* double is a rational; the model holds a number as <<n, d>>, n/d in      *)
(* lowest terms with d > 0, NaN as <<0, 0>> and +-Infinity as <<+-1, 0>>.  *)
(* The operators +, -, * and % are exact on the small dyadic values the    *)
(* game reaches, so they are computed exactly.  The division x / y is      *)
(* exact only when the quotient is again dyadic (its reduced denominator a *)
(* power of two); otherwise the double that is stored is the quotient      *)
(* rounded, which is a different number.  TLC has 32-bit integers and      *)
(* cannot hold a 53-bit mantissa, so a card that holds a rounded quotient  *)
(* is marked approx = TRUE: its num then holds the value the card stands   *)
(* for (the unrounded value of num/denom), its denom is 1, and what the    *)
(* code computes from the unknown low bits (the result of gcd) is a        *)
(* choice between the outcomes the code can produce.                       *)
(***************************************************************************)
EXTENDS Integers, Sequences, FiniteSets, TLC

(***************************************************************************)
(* Numbers                                                                 *)
(***************************************************************************)
NaN == <<0, 0>>
Zero == <<0, 1>>
One == <<1, 1>>

Abs(i) == IF i < 0 THEN -i ELSE i

Sgn(i) == IF i < 0 THEN -1 ELSE IF i > 0 THEN 1 ELSE 0

RECURSIVE Euclid(_, _)
Euclid(i, j) == IF j = 0 THEN i ELSE Euclid(j, i % j)

\* The rational i/j (j # 0) in lowest terms with a positive denominator.
Q(i, j) ==
    LET g == Euclid(Abs(i), Abs(j))
    IN  <<Sgn(j) * (i \div g), Abs(j) \div g>>

Num(i) == <<i, 1>>

IsNaN(x) == x = NaN

IsFinite(x) == x[2] > 0

JsAdd(x, y) ==
    IF ~IsFinite(x) \/ ~IsFinite(y) THEN NaN
    ELSE Q(x[1] * y[2] + y[1] * x[2], x[2] * y[2])

JsSub(x, y) ==
    IF ~IsFinite(x) \/ ~IsFinite(y) THEN NaN
    ELSE Q(x[1] * y[2] - y[1] * x[2], x[2] * y[2])

JsMul(x, y) ==
    IF ~IsFinite(x) \/ ~IsFinite(y) THEN NaN
    ELSE Q(x[1] * y[1], x[2] * y[2])

\* x / y as a real number; x / 0 is NaN for x = 0 and an infinity otherwise.
JsDiv(x, y) ==
    IF ~IsFinite(x) \/ ~IsFinite(y) THEN NaN
    ELSE IF y[1] = 0 THEN <<Sgn(x[1]), 0>>
    ELSE Q(x[1] * y[2], x[2] * y[1])

\* x % y: the remainder of the division truncated towards zero, with the
\* sign of x; NaN when y is 0.  The remainder of two doubles is a double.
JsMod(x, y) ==
    IF ~IsFinite(x) \/ ~IsFinite(y) \/ y[1] = 0 THEN NaN
    ELSE LET p == x[1] * y[2]
             q == x[2] * y[1]
             t == Sgn(p) * Sgn(q) * (Abs(p) \div Abs(q))
         IN  JsSub(x, JsMul(y, Num(t)))

JsLess(x, y) == IsFinite(x) /\ IsFinite(y) /\ x[1] * y[2] < y[1] * x[2]

JsAbs(x) == <<Abs(x[1]), x[2]>>

RECURSIVE IsPow2(_)
IsPow2(i) == i = 1 \/ (i > 1 /\ i % 2 = 0 /\ IsPow2(i \div 2))

\* A finite number that a double holds exactly.
Dyadic(x) == IsFinite(x) /\ IsPow2(x[2])

IsInteger(x) == x[2] = 1

(***************************************************************************)
(* Bounds of the model and constants of the program                        *)
(***************************************************************************)
\* Participants (browser tabs running App) are 1..NumUsers.
NumUsers == 2

\* Writes a client may have in flight to the database when one of its
\* handlers issues more.
MaxBacklog == 0

\* Writes a client may have in flight to the database when its interval
\* timer or one of its listeners issues more: they do not wait for the
\* database.
MaxTimerBacklog == 1

\* Where participants play at the same time, the cards they click are
\* card_0 .. card_<MaxClicked>.
MaxClicked == 1

\* The clock runs from 0 to MaxTime milliseconds.
MaxTime == 10000

NumCards == 4

ThinkingMs == 10000

ResetMs == 30000

MsPerSecond == 1000

DefaultSavedSeconds == 30

Target == 24

Users == 1 .. NumUsers

NoUser == 0

CardIds == 0 .. (NumCards - 1)

NoId == -1

Operations == {"add", "subtract", "multiply", "divide"}

NoOperation == "null"

NoTime == 0

(***************************************************************************)
(* The gcd helper and the arithmetic of performOperation                   *)
(***************************************************************************)
\* gcd never returns: the recursion has reached gcd(NaN, NaN), which calls
\* gcd(NaN, NaN).  The browser ends it with a RangeError (stack overflow).
Diverges == <<0, -1>>

\* Euclid's algorithm, which returns for every pair of finite numbers; the
\* helper of the code recurses on (b, b % a) where Euclid has (b, a % b).
RECURSIVE Euclidean(_, _)
Euclidean(a, b) == IF b = Zero \/ ~IsFinite(b) THEN a ELSE Euclidean(b, JsMod(a, b))

\* function gcd(a, b) { return a % b == 0 ? b : gcd(b, b % a) }
RECURSIVE gcd(_, _)
gcd(a, b) ==
    IF JsMod(a, b) = Zero THEN b
    ELSE IF IsNaN(a) /\ IsNaN(b) THEN Diverges
    ELSE gcd(b, JsMod(b, a))

\* rnum and rdenom as the switch of performOperation computes them.
Rnum(firstCard, secondCard, operation) ==
    CASE operation = "add" ->
           JsAdd(JsMul(firstCard.num, secondCard.denom),
                 JsMul(firstCard.denom, secondCard.num))
      [] operation = "subtract" ->
           JsSub(JsMul(firstCard.num, secondCard.denom),
                 JsMul(firstCard.denom, secondCard.num))
      [] operation = "multiply" -> JsMul(firstCard.num, secondCard.num)
      [] operation = "divide" -> JsMul(firstCard.num, secondCard.denom)

Rdenom(firstCard, secondCard, operation) ==
    CASE operation = "divide" -> JsMul(firstCard.denom, secondCard.num)
      [] OTHER -> JsMul(firstCard.denom, secondCard.denom)

\* The double 0.001 of the win tests; the values the game reaches are
\* rationals with small denominators, none of them nearer to 24 - 0.001 or
\* 24 + 0.001 than the rounding of 0.001 and of num/denom could matter.
Tolerance == Q(1, 1000)

(***************************************************************************)
(* The documents of the database                                           *)
(***************************************************************************)
\* A card that gameState.cards does not hold.  exists is the model's record
\* of whether the database holds any value under cards/<id>: Firebase keeps
\* no null, so a missing field reads as undefined (NoId, NaN, FALSE, NoUser).
NoCard ==
    [exists |-> FALSE, id |-> NoId, num |-> NaN, denom |-> NaN,
     approx |-> FALSE, selected |-> FALSE, selectedBy |-> NoUser]

\* No gameState document: React's gameState is null.
NoGame ==
    [exists |-> FALSE,
     cards |-> [c \in CardIds |-> NoCard],
     selectedCardId |-> NoId,
     currentOperation |-> NoOperation,
     gameActive |-> FALSE,
     thinkingMode |-> FALSE,
     thinkingUserId |-> NoUser,
     timerEndTime |-> NoTime,
     thinkingEndTime |-> NoTime,
     cardHistory |-> <<>>,
     gameWon |-> FALSE,
     lastWinner |-> NoUser]

NoUserDoc == [exists |-> FALSE, score |-> 0]

\* The hands initializeGame draws in the model, of the 10^4 that
\* Math.floor(Math.random() * 10) + 1 can give card_0 .. card_3.  The hand
\* 1, 3, 4, 8 reaches every case of the arithmetic: integers, dyadic and
\* rounded quotients, a zero, gcd calls that do not return, and 24.
Hands == {[c \in CardIds |-> <<1, 3, 4, 8>>[c + 1]]}

\* The hands of the lobby, where no card is played: with the least and the
\* greatest value a card can be dealt.
Deals == Hands \cup {[c \in CardIds |-> <<10, 1, 10, 7>>[c + 1]]}

\* A round that is dealt with the ten seconds of a turn on its reset timer.
ShortGameState(hand, t) ==
    [exists |-> TRUE,
     cards |-> [c \in CardIds |->
                  [exists |-> TRUE, id |-> c, num |-> Num(hand[c]),
                   denom |-> One, approx |-> FALSE, selected |-> FALSE,
                   selectedBy |-> NoUser]],
     selectedCardId |-> NoId,
     currentOperation |-> NoOperation,
     gameActive |-> TRUE,
     thinkingMode |-> FALSE,
     thinkingUserId |-> NoUser,
     timerEndTime |-> t + ThinkingMs,
     thinkingEndTime |-> NoTime,
     cardHistory |-> [i \in 1 .. NumCards |->
                        [id |-> i - 1, num |-> Num(hand[i - 1]),
                         denom |-> One, isRemoved |-> FALSE]],
     gameWon |-> FALSE,
     lastWinner |-> NoUser]

\* The gameState that initializeGame sets for a hand at time t.
InitialGameState(hand, t) ==
    [exists |-> TRUE,
     cards |-> [c \in CardIds |->
                  [exists |-> TRUE, id |-> c, num |-> Num(hand[c]),
                   denom |-> One, approx |-> FALSE, selected |-> FALSE,
                   selectedBy |-> NoUser]],
     selectedCardId |-> NoId,
     currentOperation |-> NoOperation,
     gameActive |-> TRUE,
     thinkingMode |-> FALSE,
     thinkingUserId |-> NoUser,
     timerEndTime |-> t + ResetMs,
     thinkingEndTime |-> NoTime,
     cardHistory |-> [i \in 1 .. NumCards |->
                        [id |-> i - 1, num |-> Num(hand[i - 1]),
                         denom |-> One, isRemoved |-> FALSE]],
     gameWon |-> FALSE,
     lastWinner |-> NoUser]

(***************************************************************************)
(* Writes.  set, update and remove are sent to the database in the order   *)
(* the client issued them and are applied there one at a time.             *)
(***************************************************************************)
SetGame(g) == [kind |-> "set", val |-> g]

RemoveGame == [kind |-> "remove"]

\* update(ref(database, 'gameState'), val)
UpdateGame(val) == [kind |-> "update", val |-> val]

\* update(ref(database, `gameState/cards/${c}`), val)
UpdateCard(c, val) == [kind |-> "updateCard", card |-> c, val |-> val]

\* remove(ref(database, `gameState/cards/${c}`))
RemoveCard(c) == [kind |-> "removeCard", card |-> c]

\* set(ref(database, `users/${u}`), user).then(() => setCurrentUser(user))
SetUser(u) == [kind |-> "setUser", user |-> u]

\* update(userRef, {score}).then(() => update(ref(database, 'gameState'), then))
UpdateScore(u, score, then) ==
    [kind |-> "updateScore", user |-> u, score |-> score, then |-> then]

GameKinds == {"set", "remove", "update", "updateCard", "removeCard"}

Patch(rec, val) ==
    [f \in DOMAIN rec |-> IF f \in DOMAIN val THEN val[f] ELSE rec[f]]

\* An update whose values are all null creates nothing.
WritesValue(val) ==
    \E f \in DOMAIN val :
        f \in {"gameActive", "thinkingMode", "gameWon"} \/ val[f] # NoGame[f]

\* The gameState document after one write.
ApplyWrite(g, w) ==
    CASE w.kind = "set" -> w.val
      [] w.kind = "remove" -> NoGame
      [] w.kind = "update" ->
           [Patch(g, w.val) EXCEPT !.exists = g.exists \/ WritesValue(w.val)]
      [] w.kind = "updateCard" ->
           [g EXCEPT !.exists = TRUE,
                     !.cards[w.card] = [Patch(@, w.val) EXCEPT !.exists = TRUE]]
      [] w.kind = "removeCard" -> [g EXCEPT !.cards[w.card] = NoCard]
      [] OTHER -> g

RECURSIVE ApplyWrites(_, _)
ApplyWrites(g, ws) ==
    IF ws = <<>> THEN g ELSE ApplyWrites(ApplyWrite(g, Head(ws)), Tail(ws))

(***************************************************************************)
(* State                                                                   *)
(***************************************************************************)
VARIABLES
    now,      \* Date.now(), in milliseconds
    db,       \* the gameState document at the database
    users,    \* the users roster at the database
    view,     \* view[p]: React's gameState of p (the client's cache of the
              \* document with p's own writes applied as they are issued)
    outbox,   \* outbox[p]: the writes of p that have not reached the database
    me,       \* me[p]: currentUser of p (joined or not, and its score)
    saved,    \* saved[p]: savedTimeUntilReset of p, in seconds
    applied,  \* results of performOperation written to the database since
              \* the board was last set or restored there
    last,     \* the handler call of the last step (NoCall after any other)
    solver    \* the call of solve: its hand, the arguments nums and dq of
              \* recurse, and the loop variable i of every call on the stack

vars == <<now, db, users, view, outbox, me, saved, applied, last, solver>>

NoCall == [act |-> "none", by |-> NoUser, card |-> NoId]

\* solve has not been called.
NoSolver == [status |-> "idle", hand |-> <<>>, nums |-> <<>>, dq |-> <<>>,
             i |-> <<>>]

\* The call of the handler act by p, on the card c if it takes one.
Call(act, p, c) == [act |-> act, by |-> p, card |-> c]

Init ==
    /\ now = 0
    /\ db = NoGame
    /\ users = [p \in Users |-> NoUserDoc]
    /\ view = [p \in Users |-> NoGame]
    /\ outbox = [p \in Users |-> <<>>]
    /\ me = [p \in Users |-> [status |-> "out", score |-> 0]]
    /\ saved = [p \in Users |-> DefaultSavedSeconds]
    /\ applied = 0
    /\ last = NoCall
    /\ solver = NoSolver

\* p issues the writes ws with at most n writes in flight: they change p's
\* own view at once and wait in p's outbox for the database.
IssueWithin(p, ws, n) ==
    /\ Len(outbox[p]) <= n
    /\ outbox' = [outbox EXCEPT ![p] = @ \o ws]
    /\ view' = [view EXCEPT ![p] = ApplyWrites(@, ws)]

\* The writes of a handler that the user calls.
Issue(p, ws) == IssueWithin(p, ws, MaxBacklog)

\* The writes of the interval timer.
IssueTimed(p, ws) == IssueWithin(p, ws, MaxTimerBacklog)

Joined(p) == me[p].status = "in"

(***************************************************************************)
(* Outcomes of the arithmetic of performOperation                          *)
(***************************************************************************)
\* num / denom of a card.
Value(card) == JsDiv(card.num, card.denom)

\* Math.abs(x - 24) < 0.001
Near24(x) == JsLess(JsAbs(JsSub(x, Num(Target))), Tolerance)

\* The win test on a stored card.  The value of an approx card whose num is
\* NaN is not known to the model: the test can go either way.
Near24Outcomes(card) ==
    IF card.approx /\ ~IsFinite(card.num) THEN BOOLEAN
    ELSE {Near24(Value(card))}

\* The exception that ends performOperation inside gcd, before any write.
Throws ==
    [throws |-> TRUE, num |-> NaN, denom |-> NaN, approx |-> FALSE,
     near24 |-> FALSE]

\* first (operation) second on the values the two cards stand for.
ValueOf(first, second, operation) ==
    CASE operation = "add" -> JsAdd(first, second)
      [] operation = "subtract" -> JsSub(first, second)
      [] operation = "multiply" -> JsMul(first, second)
      [] operation = "divide" ->
           IF second = Zero THEN NaN ELSE JsDiv(first, second)

\* What lines 542-567 and the test of line 598 compute for two cards: the
\* exception of gcd, or rnum / d and rdenom / d.  With exact cards this is
\* one outcome.  A quotient that no double holds makes the card approx.
\* With an approx card the doubles are known only up to their rounding, and
\* so is the result of gcd: performOperation throws or stores a card that
\* stands for the value of the operation.
OpOutcomes(firstCard, secondCard, operation) ==
    IF firstCard.approx \/ secondCard.approx
    THEN LET v == ValueOf(Value(firstCard), Value(secondCard), operation)
         IN  {Throws} \cup
             {[throws |-> FALSE, num |-> IF IsFinite(v) THEN v ELSE NaN,
               denom |-> One, approx |-> TRUE, near24 |-> b] :
                 b \in IF IsFinite(v) THEN {Near24(v)} ELSE BOOLEAN}
    ELSE LET rnum == Rnum(firstCard, secondCard, operation)
             rdenom == Rdenom(firstCard, secondCard, operation)
             d == gcd(rnum, rdenom)
         IN  IF d = Diverges THEN {Throws}
             ELSE LET n == JsDiv(rnum, d)
                      m == JsDiv(rdenom, d)
                  IN  IF Dyadic(n) /\ Dyadic(m)
                      THEN {[throws |-> FALSE, num |-> n, denom |-> m,
                             approx |-> FALSE,
                             near24 |-> Near24(JsDiv(n, m))]}
                      ELSE {[throws |-> FALSE, num |-> JsDiv(n, m),
                             denom |-> One, approx |-> TRUE,
                             near24 |-> Near24(JsDiv(n, m))]}

(***************************************************************************)
(* Handlers                                                                *)
(***************************************************************************)
\* Math.max(0, Math.ceil((end - t) / 1000))
SecondsLeft(end, t) ==
    IF end <= t THEN 0 ELSE (end - t + MsPerSecond - 1) \div MsPerSecond

\* The cards of Object.values(g.cards).
CardsOf(g) == {c \in CardIds : g.cards[c].exists}

\* A thinking time runs, whoever holds it.
InThinking(g, p) == g.thinkingMode

\* The negation of the test that opens handleCardClick and
\* handleOperationClick: the turn is p's.
IsHolder(g, p) == g.thinkingMode /\ g.thinkingUserId = p

\* A turn whose deadline is that of the reset timer.
ResetPatch(p, t) ==
    [thinkingMode |-> TRUE, thinkingUserId |-> p, thinkingEndTime |-> t + ResetMs]

\* The patch startThinkingTime writes at time t (lines 101-106).
ThinkingPatch(p, t) ==
    [thinkingMode |-> TRUE, thinkingUserId |-> p,
     thinkingEndTime |-> t + ThinkingMs]

startThinkingTime(p) ==
    LET g == view[p]
    IN  IF Joined(p) /\ g.exists /\ g.gameActive /\ ~g.thinkingMode
        THEN /\ saved' = [saved EXCEPT ![p] =
                            IF g.timerEndTime # NoTime
                            THEN SecondsLeft(g.timerEndTime, now)
                            ELSE DefaultSavedSeconds]
             /\ Issue(p, <<UpdateGame(ThinkingPatch(p, now))>>)
             /\ UNCHANGED <<now, db, users, me, applied>>
        ELSE UNCHANGED <<now, db, users, view, outbox, me, saved, applied>>

\* The patch that ends the round as a win of p (lines 607-611).
WinPatch(p) == [gameActive |-> FALSE, gameWon |-> TRUE, lastWinner |-> p]

\* The patch of the success branch of endThinkingTime (lines 139-147).
ThinkingWinPatch(p) ==
    [thinkingMode |-> FALSE, thinkingUserId |-> NoUser,
     thinkingEndTime |-> NoTime, gameActive |-> FALSE, gameWon |-> TRUE,
     lastWinner |-> p]

\* cardHistory as it is.
SameHistory(history, firstCardId) == history

\* cardHistory with the entry of firstCardId marked (lines 578-583).
UpdatedHistory(history, firstCardId) ==
    [i \in DOMAIN history |->
        IF history[i].id = firstCardId
        THEN [history[i] EXCEPT !.isRemoved = TRUE]
        ELSE history[i]]

\* performOperation(firstCardId, secondCardId, operation) of p on its
\* snapshot g with the outcome out of the arithmetic.
performOperation(p, g, firstCardId, secondCardId, operation, out) ==
    LET firstCard == g.cards[firstCardId]
        secondCard == g.cards[secondCardId]
        result == UpdateCard(secondCardId,
                             [num |-> out.num, denom |-> out.denom,
                              approx |-> out.approx, selected |-> TRUE,
                              selectedBy |-> p])
        rest == <<RemoveCard(firstCardId),
                  UpdateGame([selectedCardId |-> secondCardId,
                              currentOperation |-> NoOperation,
                              cardHistory |->
                                  UpdatedHistory(g.cardHistory, firstCardId)])>>
        remainingCards == {c \in CardsOf(g) : g.cards[c].id # firstCardId}
        won == Cardinality(remainingCards) = 1 /\ out.near24
    IN  IF ~firstCard.exists \/ ~secondCard.exists \/ out.throws
        THEN UNCHANGED <<view, outbox, me>>
        ELSE IF g.cardHistory = <<>>
        THEN \* cardHistory.map of undefined: a TypeError after the first write
             /\ Issue(p, <<result>>)
             /\ UNCHANGED me
        ELSE IF won
        THEN /\ me' = [me EXCEPT ![p].score = @ + 1]
             /\ Issue(p, <<result>> \o rest \o
                         <<UpdateScore(p, me[p].score + 1, WinPatch(p))>>)
        ELSE /\ Issue(p, <<result>> \o rest)
             /\ UNCHANGED me

\* The patch of a deselection that leaves the owner of the card in place.
UnselectPatch == [selected |-> FALSE]

SelectPatch(p) == [selected |-> TRUE, selectedBy |-> p]

DeselectPatch == [selected |-> FALSE, selectedBy |-> NoUser]

\* The selection cleared with the pending operation left as it is.
ClearSelectedCard == [selectedCardId |-> NoId]

ClearSelection == [selectedCardId |-> NoId, currentOperation |-> NoOperation]

\* handleCardClick without the test of a card that another participant has
\* selected.
clickForeignCard(p, cardId) ==
    LET g == view[p]
        card == g.cards[cardId]
        sel == g.selectedCardId
    IN  /\ UNCHANGED <<now, db, users, saved, applied>>
        /\ IF ~Joined(p) \/ ~g.exists \/ ~g.gameActive
           THEN UNCHANGED <<view, outbox, me>>
           ELSE IF ~IsHolder(g, p)
           THEN UNCHANGED <<view, outbox, me>>
           ELSE IF ~card.exists
           THEN UNCHANGED <<view, outbox, me>>
           ELSE IF \/ (sel # NoId /\ ~g.cards[sel].exists)
                   \/ (g.currentOperation # NoOperation /\ sel = NoId)
           THEN Issue(p, <<UpdateGame(ClearSelection)>>) /\ UNCHANGED me
           ELSE IF sel = NoId
           THEN /\ Issue(p, <<UpdateCard(cardId, SelectPatch(p)),
                              UpdateGame([selectedCardId |-> cardId])>>)
                /\ UNCHANGED me
           ELSE IF g.currentOperation # NoOperation /\ cardId # sel
           THEN \E out \in OpOutcomes(g.cards[sel], card, g.currentOperation) :
                    performOperation(p, g, sel, cardId, g.currentOperation, out)
           ELSE IF g.currentOperation = NoOperation /\ cardId # sel
           THEN /\ Issue(p, <<UpdateCard(sel, DeselectPatch),
                              UpdateCard(cardId, SelectPatch(p)),
                              UpdateGame([selectedCardId |-> cardId])>>)
                /\ UNCHANGED me
           ELSE IF cardId = sel /\ card.selectedBy = p
           THEN /\ Issue(p, <<UpdateCard(cardId, DeselectPatch),
                              UpdateGame(ClearSelection)>>)
                /\ UNCHANGED me
           ELSE UNCHANGED <<view, outbox, me>>

handleCardClick(p, cardId) ==
    LET g == view[p]
        card == g.cards[cardId]
        sel == g.selectedCardId
    IN  /\ UNCHANGED <<now, db, users, saved, applied>>
        /\ IF ~Joined(p) \/ ~g.exists \/ ~g.gameActive
           THEN UNCHANGED <<view, outbox, me>>
           ELSE IF ~IsHolder(g, p)
           THEN UNCHANGED <<view, outbox, me>>
           ELSE IF ~card.exists
           THEN UNCHANGED <<view, outbox, me>>
           ELSE IF card.selected /\ card.selectedBy # NoUser /\ card.selectedBy # p
           THEN UNCHANGED <<view, outbox, me>>
           ELSE IF \/ (sel # NoId /\ ~g.cards[sel].exists)
                   \/ (g.currentOperation # NoOperation /\ sel = NoId)
           THEN Issue(p, <<UpdateGame(ClearSelection)>>) /\ UNCHANGED me
           ELSE IF sel = NoId
           THEN /\ Issue(p, <<UpdateCard(cardId, SelectPatch(p)),
                              UpdateGame([selectedCardId |-> cardId])>>)
                /\ UNCHANGED me
           ELSE IF g.currentOperation # NoOperation /\ cardId # sel
           THEN \E out \in OpOutcomes(g.cards[sel], card, g.currentOperation) :
                    performOperation(p, g, sel, cardId, g.currentOperation, out)
           ELSE IF g.currentOperation = NoOperation /\ cardId # sel
           THEN /\ Issue(p, <<UpdateCard(sel, DeselectPatch),
                              UpdateCard(cardId, SelectPatch(p)),
                              UpdateGame([selectedCardId |-> cardId])>>)
                /\ UNCHANGED me
           ELSE IF cardId = sel /\ card.selectedBy = p
           THEN /\ Issue(p, <<UpdateCard(cardId, DeselectPatch),
                              UpdateGame(ClearSelection)>>)
                /\ UNCHANGED me
           ELSE UNCHANGED <<view, outbox, me>>

\* handleOperationClick without the test of the owner of the selected card.
chooseForAnyOwner(p, operation) ==
    LET g == view[p]
    IN  /\ UNCHANGED <<now, db, users, me, saved, applied>>
        /\ IF ~Joined(p) \/ ~g.exists
           THEN UNCHANGED <<view, outbox>>
           ELSE IF ~IsHolder(g, p)
           THEN UNCHANGED <<view, outbox>>
           ELSE IF \/ g.selectedCardId = NoId
                   \/ ~g.cards[g.selectedCardId].exists
           THEN UNCHANGED <<view, outbox>>
           ELSE Issue(p, <<UpdateGame([currentOperation |-> operation])>>)

handleOperationClick(p, operation) ==
    LET g == view[p]
    IN  /\ UNCHANGED <<now, db, users, me, saved, applied>>
        /\ IF ~Joined(p) \/ ~g.exists
           THEN UNCHANGED <<view, outbox>>
           ELSE IF ~IsHolder(g, p)
           THEN UNCHANGED <<view, outbox>>
           ELSE IF \/ g.selectedCardId = NoId
                   \/ ~g.cards[g.selectedCardId].exists
                   \/ g.cards[g.selectedCardId].selectedBy # p
           THEN UNCHANGED <<view, outbox>>
           ELSE Issue(p, <<UpdateGame([currentOperation |-> operation])>>)

\* The cards of the history that no operation has removed.
UnusedCards(history) ==
    [c \in CardIds |->
        IF \E i \in DOMAIN history : history[i].id = c /\ ~history[i].isRemoved
        THEN LET h == history[CHOOSE i \in DOMAIN history : history[i].id = c]
             IN  [exists |-> TRUE, id |-> h.id, num |-> h.num,
                  denom |-> h.denom, approx |-> FALSE, selected |-> FALSE,
                  selectedBy |-> NoUser]
        ELSE NoCard]

\* The cards resetCardsToOriginal recreates from cardHistory (lines 172-183).
OriginalCards(history) ==
    [c \in CardIds |->
        IF \E i \in DOMAIN history : history[i].id = c
        THEN LET h == history[CHOOSE i \in DOMAIN history : history[i].id = c]
             IN  [exists |-> TRUE, id |-> h.id, num |-> h.num,
                  denom |-> h.denom, approx |-> FALSE, selected |-> FALSE,
                  selectedBy |-> NoUser]
        ELSE NoCard]

resetCardsToOriginal(g) ==
    UpdateGame([cards |-> OriginalCards(g.cardHistory),
                selectedCardId |-> NoId,
                currentOperation |-> NoOperation])

\* endThinkingTime of p on its snapshot g, the win test having given near24.
endThinkingTime(p, g, near24) ==
    LET remainingCards == CardsOf(g)
        succeeded == Cardinality(remainingCards) = 1 /\ near24
    IN  IF remainingCards = {}
        THEN \* Object.values(undefined): a TypeError before any write
             UNCHANGED <<view, outbox, me>>
        ELSE IF succeeded
        THEN /\ me' = [me EXCEPT ![p].score = @ + 1]
             /\ IssueTimed(p, <<UpdateScore(p, me[p].score + 1,
                                         ThinkingWinPatch(p))>>)
        ELSE IF g.cardHistory = <<>>
        THEN \* cardHistory.forEach of undefined: a TypeError before any write
             UNCHANGED <<view, outbox, me>>
        ELSE /\ IssueTimed(p, <<resetCardsToOriginal(g),
                           UpdateGame([thinkingMode |-> FALSE,
                                       thinkingUserId |-> NoUser,
                                       thinkingEndTime |-> NoTime,
                                       timerEndTime |->
                                           now + saved[p] * MsPerSecond])>>)
             /\ UNCHANGED me

\* The reset timeout with the selection cleared as a restored board has it.
ClearingTimeoutPatch ==
    [gameActive |-> FALSE, gameWon |-> FALSE, selectedCardId |-> NoId,
     currentOperation |-> NoOperation]

\* The patch of the reset timeout (lines 232-235).
TimeoutPatch == [gameActive |-> FALSE, gameWon |-> FALSE]

\* One run of the 200 ms interval of the timer effect (lines 221-251).  The
\* effect sets the interval up only for a joined user and an active game.
TimerTick(p) ==
    LET g == view[p]
    IN  /\ Joined(p) /\ g.exists /\ g.gameActive
        /\ UNCHANGED <<now, db, users, saved, applied>>
        /\ IF /\ ~g.thinkingMode /\ g.timerEndTime # NoTime
              /\ SecondsLeft(g.timerEndTime, now) = 0
              /\ g.timerEndTime > now - MsPerSecond
           THEN /\ IssueTimed(p, <<UpdateGame(TimeoutPatch)>>)
                /\ UNCHANGED me
           ELSE IF /\ g.thinkingMode /\ g.thinkingEndTime # NoTime
                   /\ SecondsLeft(g.thinkingEndTime, now) = 0
                   /\ g.thinkingEndTime > now - MsPerSecond
                   /\ g.thinkingUserId = p
           THEN \E near24 \in
                    UNION {Near24Outcomes(g.cards[c]) : c \in CardsOf(g)}
                      \cup {FALSE} :
                    endThinkingTime(p, g, near24)
           ELSE UNCHANGED <<view, outbox, me>>

\* initializeGame at time now with the hand Math.random draws.
initializeGame(p, hand) == Issue(p, <<SetGame(InitialGameState(hand, now))>>)

\* The New Game button, rendered when the snapshot shows an ended round.
resetGame(p, hand) ==
    /\ Joined(p) /\ view[p].exists /\ ~view[p].gameActive
    /\ initializeGame(p, hand)
    /\ UNCHANGED <<now, db, users, me, saved, applied>>

\* The Join Game button: the user is written to the roster, and the game
\* is initialized if the client holds no gameState.
joinCollaboration(p, hand) ==
    /\ me[p].status = "out"
    /\ me' = [me EXCEPT ![p].status = "joining"]
    /\ Issue(p, IF view[p].exists
                THEN <<SetUser(p)>>
                ELSE <<SetUser(p), SetGame(InitialGameState(hand, now))>>)
    /\ UNCHANGED <<now, db, users, saved, applied>>

(***************************************************************************)
(* The page and the roster                                                 *)
(***************************************************************************)
\* The page of p is open: App is mounted and its listeners are attached.
Mounted(p) == me[p].status # "closed"

\* The test of line 267 with its first negation left out.
RosterExists(u) == \E q \in Users : u[q].exists

\* The snapshot of users does not exist or holds no key (line 267).
RosterEmpty(u) == \A q \in Users : ~u[q].exists

\* The participant p closes the page or loses its connection.  The server
\* runs onDisconnect(users/<p>).remove() (line 322); the writes p had in
\* flight are lost with the connection.  The users listener of every open
\* page (lines 266-270) sees the new roster, and calls cleanupGameState if
\* the roster is empty.  The roster a page sees holds its own user as soon
\* as joinCollaboration has issued the set (line 295), before it arrives.
Joining(q) == \E i \in DOMAIN outbox[q] : outbox[q][i].kind = "setUser"

Disconnect(p) ==
    /\ Joined(p)
    /\ users' = [users EXCEPT ![p] = NoUserDoc]
    /\ me' = [me EXCEPT ![p] = [status |-> "closed", score |-> 0]]
    /\ saved' = [saved EXCEPT ![p] = DefaultSavedSeconds]
    /\ LET cleaning == {q \in Users \ {p} :
                            Mounted(q) /\ ~Joining(q) /\ RosterEmpty(users')}
       IN  /\ \A q \in cleaning : Len(outbox[q]) <= MaxTimerBacklog
           /\ outbox' = [q \in Users |->
                            IF q = p THEN <<>>
                            ELSE IF q \in cleaning
                            THEN Append(outbox[q], RemoveGame)
                            ELSE outbox[q]]
           /\ view' = [q \in Users |->
                          IF q = p THEN NoGame
                          ELSE IF q \in cleaning
                          THEN ApplyWrite(view[q], RemoveGame)
                          ELSE view[q]]
    /\ UNCHANGED <<now, db, applied>>

\* The page is loaded again after everybody has left: App mounts, the
\* users listener is handed an empty roster and cleanupGameState runs.  A
\* join from this page is that of a new participant ('user_' + Date.now());
\* the model gives it the number p again, which no document means any more
\* once the remove is issued.
Open(p) ==
    /\ ~Mounted(p)
    /\ RosterEmpty(users)
    /\ me' = [me EXCEPT ![p].status = "out"]
    /\ outbox' = [outbox EXCEPT ![p] = <<RemoveGame>>]
    /\ view' = [view EXCEPT ![p] = NoGame]
    /\ UNCHANGED <<now, db, users, saved, applied>>

(***************************************************************************)
(* The database and the clock                                              *)
(***************************************************************************)
\* The count of applied operations after the write w has reached the
\* database: setting the document (initializeGame) or its cards
\* (resetCardsToOriginal) starts the count again, the result card of
\* performOperation adds one.
AppliedAfter(n, w) ==
    CASE w.kind = "set" -> 0
      [] w.kind = "update" /\ "cards" \in DOMAIN w.val -> 0
      [] w.kind = "updateCard" /\ "num" \in DOMAIN w.val -> n + 1
      [] OTHER -> n

GameWrites(ws) == SelectSeq(ws, LAMBDA w : w.kind \in GameKinds)

\* What the gameState listeners (lines 635-650) hand to React: each client
\* sees the document d of the database with its own writes in flight on
\* top.  The value event reaches the clients as the database changes; the
\* latency of the model is that of the writes.
Seen(d, ob) == [q \in Users |-> ApplyWrites(d, GameWrites(ob[q]))]

\* The first write in flight from p reaches the database, and the promise
\* of a write to users/ resolves and runs its then().
ServerApply(p) ==
    /\ outbox[p] # <<>>
    /\ UNCHANGED <<now, saved>>
    /\ LET w == Head(outbox[p])
       IN  CASE w.kind = "setUser" ->
                  /\ users' = [users EXCEPT ![w.user] =
                                  [exists |-> TRUE, score |-> 0]]
                  /\ me' = [me EXCEPT ![p].status = "in"]
                  /\ outbox' = [outbox EXCEPT ![p] = Tail(@)]
                  /\ UNCHANGED <<db, view, applied>>
             [] w.kind = "updateScore" ->
                  /\ users' = [users EXCEPT ![w.user] =
                                  [exists |-> TRUE, score |-> w.score]]
                  /\ outbox' = [outbox EXCEPT ![p] =
                                   Tail(@) \o <<UpdateGame(w.then)>>]
                  /\ view' = [view EXCEPT ![p] =
                                 ApplyWrite(@, UpdateGame(w.then))]
                  /\ UNCHANGED <<db, me, applied>>
             [] OTHER ->
                  /\ db' = ApplyWrite(db, w)
                  /\ applied' = AppliedAfter(applied, w)
                  /\ outbox' = [outbox EXCEPT ![p] = Tail(@)]
                  /\ view' = Seen(db', outbox')
                  /\ UNCHANGED <<users, me>>

\* The clock advances by d milliseconds.
Advance(d) ==
    /\ now + d <= MaxTime
    /\ now' = now + d
    /\ UNCHANGED <<db, users, view, outbox, me, saved, applied>>

\* The instants at which the lobby is observed: the join of a round, an
\* entry of a turn half a second later, a tick inside the window of the
\* thinking deadlines 10000 and 10500, and a tick at the reset deadline.
Instants == {0, 500, 10500, 30000}

\* The clock is read next at the instant t.
AdvanceTo(t) ==
    /\ t > now
    /\ now' = t
    /\ UNCHANGED <<db, users, view, outbox, me, saved, applied>>

\* The interval of p, run now, would write: a deadline of p's snapshot has
\* expired less than a second ago, and the transition is p's to make.
TickDue(p) ==
    LET g == view[p]
    IN  /\ Joined(p) /\ g.exists /\ g.gameActive
        /\ \/ /\ ~g.thinkingMode /\ g.timerEndTime # NoTime
              /\ SecondsLeft(g.timerEndTime, now) = 0
              /\ g.timerEndTime > now - MsPerSecond
           \/ /\ g.thinkingMode /\ g.thinkingEndTime # NoTime
              /\ SecondsLeft(g.thinkingEndTime, now) = 0
              /\ g.thinkingEndTime > now - MsPerSecond
              /\ g.thinkingUserId = p

\* The clock reaches the next instant once every interval that has a
\* transition to make at this one has run.
Tock ==
    /\ \A p \in Users : ~TickDue(p)
    /\ \E t \in Instants :
           /\ \A u \in Instants : u > now => t <= u
           /\ AdvanceTo(t)

(***************************************************************************)
(* The solver: solve, recurse and calc of App.tsx, which are solve,        *)
(* recurse and eval of Solver.java (src/unnamed/part_000).                 *)
(*                                                                         *)
(* calc computes in doubles.  The model computes the same expression in    *)
(* rationals, with the infinities and the NaN of a division by zero.  The  *)
(* expressions are those of four operands 1 .. 10 and three operators:     *)
(* their values are fractions with denominators below 1000, so a value     *)
(* that is not 24 is further than 0.001 from it, and the rounding of the   *)
(* three operations (of the order of 1e-13 at most) moves no value across  *)
(* the 1e-6 of the test.  A zero that is divided by is the exact           *)
(* difference of equal doubles.                                            *)
(***************************************************************************)
\* The operands the hands of the solver are drawn from: a hand that needs
\* a fraction on the way (3, 3, 8, 8), hands with no solution (1, 1, 1, 1),
\* and differences that are zero.
SolverValues == {1, 3, 8}

SolverHands == [1 .. NumCards -> SolverValues]

\* dq.length === 7
SolutionLength == 7

\* The operators are the tokens -1 (+), -2 (-), -3 (*) and -4 (/).
NumOperators == 4

\* 1e-6 is 1 / MicroInverse.
MicroInverse == 1000000

Neg(x) == <<-x[1], x[2]>>

\* a + b, a - b, a * b and a / b of doubles, the infinities included.
DblAdd(x, y) ==
    IF IsNaN(x) \/ IsNaN(y) THEN NaN
    ELSE IF ~IsFinite(x) THEN (IF ~IsFinite(y) /\ y # x THEN NaN ELSE x)
    ELSE IF ~IsFinite(y) THEN y
    ELSE JsAdd(x, y)

DblSub(x, y) == DblAdd(x, Neg(y))

DblMul(x, y) ==
    IF IsNaN(x) \/ IsNaN(y) THEN NaN
    ELSE IF ~IsFinite(x) \/ ~IsFinite(y)
    THEN (IF x[1] = 0 \/ y[1] = 0 THEN NaN ELSE <<Sgn(x[1]) * Sgn(y[1]), 0>>)
    ELSE JsMul(x, y)

DblDiv(x, y) ==
    IF IsNaN(x) \/ IsNaN(y) THEN NaN
    ELSE IF ~IsFinite(x)
    THEN (IF ~IsFinite(y) THEN NaN
          ELSE <<x[1] * (IF y[1] < 0 THEN -1 ELSE 1), 0>>)
    ELSE IF ~IsFinite(y) THEN Zero
    ELSE JsDiv(x, y)

\* The switch of calc (lines 689-702).
Switch(i, a, b) ==
    CASE i = -1 -> DblAdd(a, b)
      [] i = -2 -> DblSub(a, b)
      [] i = -3 -> DblMul(a, b)
      [] i = -4 -> DblDiv(a, b)

\* stack.pop(): of an empty array it is undefined, a NaN in the arithmetic
\* (eval of Solver.java throws NoSuchElementException there).
Popped(stack) ==
    IF stack = <<>> THEN NaN ELSE stack[Len(stack)]

Rest(stack) ==
    IF stack = <<>> THEN <<>> ELSE SubSeq(stack, 1, Len(stack) - 1)

\* The stack of calc after the tokens of dq.
RECURSIVE StackAfter(_, _)
StackAfter(dq, stack) ==
    IF dq = <<>> THEN stack
    ELSE LET i == Head(dq)
         IN  IF i > 0
             THEN StackAfter(Tail(dq), Append(stack, Num(i)))
             ELSE LET b == Popped(stack)
                      a == Popped(Rest(stack))
                  IN  StackAfter(Tail(dq),
                                 Append(Rest(Rest(stack)), Switch(i, a, b)))

calc(dq) ==
    LET stack == StackAfter(dq, <<>>)
    IN  IF stack = <<>> THEN Zero ELSE stack[Len(stack)]

\* Math.abs(v - x) < 1 for an integer x.
WithinOne(v, x) ==
    IsFinite(v) /\ Abs(v[1] - x * v[2]) < v[2]

\* Math.abs(v - x) < 1e-6 for an integer x: |n - x d| * 10^6 < d.
CloseTo(v, x) ==
    IsFinite(v) /\ Abs(v[1] - x * v[2]) <= (v[2] - 1) \div MicroInverse

\* The test of line 664 with <= for <.
LooseGuard(nums, dq) == Len(dq) + 2 * Len(nums) <= SolutionLength

\* dq.length + 2 * nums.length < 7 (line 664).
Guard(nums, dq) == Len(dq) + 2 * Len(nums) < SolutionLength

\* The loop variable of a call of recurse when it starts: -1 .. -4 in the
\* loop of the operators, which the guard opens, then 0, 1, ... in the loop
\* of the operands.
FirstI(nums, dq) == IF Guard(nums, dq) THEN -1 ELSE 0

\* The loop of the operators without the division.
NextIWithoutDivide(i) ==
    IF i < 0 /\ i > 1 - NumOperators THEN i - 1
    ELSE IF i < 0 THEN 0
    ELSE i + 1

\* i-- in the loop of the operators (i >= -4), i++ in that of the operands.
NextI(i) ==
    IF i < 0 /\ i > -NumOperators THEN i - 1
    ELSE IF i < 0 THEN 0
    ELSE i + 1

\* nums after nums.splice(i, 1).
RemoveAt(nums, i) == SubSeq(nums, 1, i) \o SubSeq(nums, i + 2, Len(nums))

\* nums after nums.push(num): the operand put back at the end.
InsertLast(nums, i, num) == Append(nums, num)

\* nums after nums.splice(i, 0, num).
InsertAt(nums, i, num) ==
    SubSeq(nums, 1, i) \o <<num>> \o SubSeq(nums, i + 1, Len(nums))

\* solve(): recurse is called with the four numbers of the hand and an
\* empty dq.
Solving(hand) ==
    [status |-> "running", hand |-> hand, nums |-> hand, dq |-> <<>>,
     i |-> <<FirstI(hand, <<>>)>>]

\* The call on top of the stack pushes a token, an operator (i < 0) or the
\* operand nums[i], and calls recurse.
recurse ==
    LET i == solver.i[Len(solver.i)]
    IN  /\ solver.status = "running"
        /\ Len(solver.dq) < SolutionLength
        /\ i < Len(solver.nums)
        /\ LET nums == IF i < 0 THEN solver.nums ELSE RemoveAt(solver.nums, i)
               dq == Append(solver.dq,
                            IF i < 0 THEN i ELSE solver.nums[i + 1])
           IN  solver' = [solver EXCEPT !.nums = nums, !.dq = dq,
                                        !.i = Append(@, FirstI(nums, dq))]

\* The call on top of the stack returns false: dq holds 7 tokens that fail
\* the test, or both loops have ended.  Its caller pops the token, puts an
\* operand back into nums and goes on with its loop; with no caller, solve
\* returns the empty array.
returnFalse ==
    LET depth == Len(solver.i)
    IN  /\ solver.status = "running"
        /\ IF Len(solver.dq) = SolutionLength
           THEN ~CloseTo(calc(solver.dq), Target)
           ELSE solver.i[depth] >= Len(solver.nums)
        /\ IF depth = 1
           THEN solver' = [solver EXCEPT !.status = "none", !.i = <<>>]
           ELSE LET i == solver.i[depth - 1]
                    token == solver.dq[Len(solver.dq)]
                IN  solver' =
                        [solver EXCEPT
                            !.dq = SubSeq(@, 1, Len(@) - 1),
                            !.nums = IF i < 0 THEN @ ELSE InsertAt(@, i, token),
                            !.i = Append(SubSeq(@, 1, depth - 2), NextI(i))]

\* dq holds 7 tokens that pass the test: the call returns true, and so does
\* every call on the stack; solve returns dq.
returnTrue ==
    /\ solver.status = "running"
    /\ Len(solver.dq) = SolutionLength
    /\ CloseTo(calc(solver.dq), Target)
    /\ solver' = [solver EXCEPT !.status = "found", !.i = <<>>]

\* What solve has returned.
Solution == IF solver.status = "found" THEN solver.dq ELSE <<>>

(***************************************************************************)
(* convert of the page                                                     *)
(***************************************************************************)
\* A string of convert is modelled as the sequence of the pieces it is put
\* together from: the parentheses, the numbers in decimal, the operators
\* with their blanks, and the texts that stand alone.
OperatorText(i) ==
    CASE i = -1 -> " + "
      [] i = -2 -> " - "
      [] i = -3 -> " * "
      [] i = -4 -> " / "

\* `(${a} + ${b})` and the like (lines 717-730).
Template(i, a, b) == <<"(">> \o a \o <<OperatorText(i)>> \o b \o <<")">>

\* stack.pop() of convert; an undefined in a template reads "undefined".
PoppedText(stack) ==
    IF stack = <<>> THEN <<"undefined">> ELSE stack[Len(stack)]

\* The stack of convert after the tokens of dq.
RECURSIVE TextsAfter(_, _)
TextsAfter(dq, stack) ==
    IF dq = <<>> THEN stack
    ELSE LET i == Head(dq)
         IN  IF i > 0
             THEN TextsAfter(Tail(dq), Append(stack, <<ToString(i)>>))
             ELSE LET b == PoppedText(stack)
                      a == PoppedText(Rest(stack))
                  IN  TextsAfter(Tail(dq),
                                 Append(Rest(Rest(stack)), Template(i, a, b)))

convert(dq) ==
    IF Len(dq) = 0 THEN <<"No solution.">>
    ELSE PoppedText(TextsAfter(dq, <<>>)) \o <<" = 24">>

(***************************************************************************)
(* Solver.java                                                             *)
(***************************************************************************)
\* A reference of Java: null, or a Deque with its elements from the head.
Null == [isNull |-> TRUE, elems |-> <<>>]

Deque(elems) == [isNull |-> FALSE, elems |-> elems]

\* stack.add(x) of a LinkedList: x is put at the tail.
addLast(stack, x) == Append(stack, x)

\* stack.push(x) of a LinkedList: x is put at the head, where pop() and
\* peek() take it.
push(stack, x) == <<x>> \o stack

\* eval has ended in an exception, in place of its double: pop() of an
\* empty deque throws NoSuchElementException.
Thrown == <<0, -2>>

\* The switch of eval (lines 43-56).
Solver_switch(i, a, b) ==
    CASE i = -1 -> DblAdd(a, b)
      [] i = -2 -> DblSub(a, b)
      [] i = -3 -> DblMul(a, b)
      [] i = -4 -> DblDiv(a, b)

\* The stack of eval after the tokens of dq.
RECURSIVE Solver_evalStack(_, _)
Solver_evalStack(dq, stack) ==
    IF dq = <<>> \/ stack = <<Thrown>> THEN stack
    ELSE LET i == Head(dq)
         IN  IF i > 0
             THEN Solver_evalStack(Tail(dq), push(stack, Num(i)))
             ELSE IF Len(stack) < 2 THEN <<Thrown>>
             ELSE LET b == stack[1]
                      a == stack[2]
                  IN  Solver_evalStack(Tail(dq),
                          push(SubSeq(stack, 3, Len(stack)),
                               Solver_switch(i, a, b)))

Solver_eval(dq) ==
    LET stack == Solver_evalStack(dq, <<>>)
    IN  IF stack = <<>> THEN Zero ELSE stack[1]

\* nums after nums.remove(i): the elements behind the index i move up.
Solver_remove(nums, i) ==
    [k \in 1 .. Len(nums) - 1 |-> IF k <= i THEN nums[k] ELSE nums[k + 1]]

\* nums after nums.add(i, num): the elements from the index i move down.
Solver_add(nums, i, num) ==
    [k \in 1 .. Len(nums) + 1 |->
        IF k <= i THEN nums[k] ELSE IF k = i + 1 THEN num ELSE nums[k - 1]]

\* dq after dq.removeLast().
Solver_removeLast(dq) == [k \in 1 .. Len(dq) - 1 |-> dq[k]]

\* The loop variable with which a call of recurse starts (lines 19-20, 26).
Solver_first(nums, dq) ==
    IF Len(dq) + 2 * Len(nums) < SolutionLength THEN -1 ELSE 0

\* solve(a, b, c, d, x): the search when recurse is called.
Solver_start(hand) ==
    [status |-> "running", hand |-> hand, nums |-> hand, dq |-> <<>>,
     i |-> <<Solver_first(hand, <<>>)>>]

\* The call of recurse on top of the stack of s returns false to its caller,
\* which takes the token back and goes on with its loop (lines 22-23,
\* 29-30); solve returns null if there is no caller.
Solver_returned(s) ==
    LET depth == Len(s.i)
    IN  IF depth = 1 THEN [s EXCEPT !.status = "none", !.i = <<>>]
        ELSE LET i == s.i[depth - 1]
                 callers == SubSeq(s.i, 1, depth - 2)
                 dq == Solver_removeLast(s.dq)
             IN  IF i < 0
                 THEN [s EXCEPT !.dq = dq,
                                !.i = callers \o
                                      <<IF i - 1 >= -NumOperators
                                        THEN i - 1 ELSE 0>>]
                 ELSE [s EXCEPT !.dq = dq,
                                !.nums = Solver_add(s.nums, i,
                                                    s.dq[Len(s.dq)]),
                                !.i = callers \o <<i + 1>>]

\* One step of recurse of Solver.java (lines 15-34) from the search s: the
\* test of a full dq, a token added and recurse called, or false returned.
Solver_recurse(s) ==
    LET i == s.i[Len(s.i)]
    IN  IF Len(s.dq) = SolutionLength
        THEN IF Solver_eval(s.dq) = Thrown
             THEN [s EXCEPT !.status = "thrown", !.i = <<>>]
             ELSE IF CloseTo(Solver_eval(s.dq), Target)
             THEN [s EXCEPT !.status = "found", !.i = <<>>]
             ELSE Solver_returned(s)
        ELSE IF i < 0
        THEN LET dq == Append(s.dq, i)
             IN  [s EXCEPT !.dq = dq,
                           !.i = Append(@, Solver_first(s.nums, dq))]
        ELSE IF i < Len(s.nums)
        THEN LET nums == Solver_remove(s.nums, i)
                 dq == Append(s.dq, s.nums[i + 1])
             IN  [s EXCEPT !.nums = nums, !.dq = dq,
                           !.i = Append(@, Solver_first(nums, dq))]
        ELSE Solver_returned(s)

\* What solve of Solver.java returns when the search s has ended.
Solver_solve(s) == IF s.status = "found" THEN Deque(s.dq) ELSE Null

\* String.format("(%s + %s)", a, b) and the like (lines 70-81).
Solver_format(i, a, b) ==
    <<"(">> \o a \o <<OperatorText(i)>> \o b \o <<")">>

\* convert has ended in an exception, in place of its string.
NoSuchElementException == <<"java.util.NoSuchElementException">>

NullPointerException == <<"java.lang.NullPointerException">>

\* The stack of convert of Solver.java after the tokens of dq.
RECURSIVE Solver_convertStack(_, _)
Solver_convertStack(dq, stack) ==
    IF dq = <<>> \/ stack = <<NoSuchElementException>> THEN stack
    ELSE LET i == Head(dq)
         IN  IF i > 0
             THEN Solver_convertStack(Tail(dq), push(stack, <<ToString(i)>>))
             ELSE IF Len(stack) < 2 THEN <<NoSuchElementException>>
             ELSE LET b == stack[1]
                      a == stack[2]
                  IN  Solver_convertStack(Tail(dq),
                          push(SubSeq(stack, 3, Len(stack)),
                               Solver_format(i, a, b)))

\* convert(dq) of Solver.java: the for loop over a null dq throws; peek()
\* of an empty stack is null.
Solver_convert(dq) ==
    IF dq.isNull THEN NullPointerException
    ELSE LET stack == Solver_convertStack(dq.elems, <<>>)
         IN  IF stack = <<>> THEN <<"null">> ELSE stack[1]

(***************************************************************************)
(* Specifications                                                          *)
(***************************************************************************)
\* The session apart from the record of the call.
session == <<now, db, users, view, outbox, me, saved, applied>>

\* The step A is the handler call c.
Called(A, c) == A /\ last' = c /\ UNCHANGED solver

\* The step A is no handler call.
Quiet(A) == A /\ last' = NoCall /\ UNCHANGED solver

\* The participants on one board: every interleaving of their handlers with
\* the arrival of their writes at the database.
Clicked == 0 .. MaxClicked

Next ==
    \/ \E p \in Users, hand \in Hands :
           Called(joinCollaboration(p, hand), Call("joinCollaboration", p, NoId))
    \/ \E p \in Users :
           Called(startThinkingTime(p), Call("startThinkingTime", p, NoId))
    \/ \E p \in Users, c \in Clicked :
           Called(handleCardClick(p, c), Call("handleCardClick", p, c))
    \/ \E p \in Users, o \in Operations :
           Called(handleOperationClick(p, o), Call("handleOperationClick", p, NoId))
    \/ \E p \in Users : Quiet(ServerApply(p))

Spec == Init /\ [][Next]_vars

\* One participant playing a round alone within its thinking time.
NextRound ==
    \/ \E hand \in Hands :
           Called(joinCollaboration(1, hand), Call("joinCollaboration", 1, NoId))
    \/ Called(startThinkingTime(1), Call("startThinkingTime", 1, NoId))
    \/ \E c \in CardIds :
           Called(handleCardClick(1, c), Call("handleCardClick", 1, c))
    \/ \E o \in Operations :
           Called(handleOperationClick(1, o), Call("handleOperationClick", 1, NoId))
    \/ Quiet(ServerApply(1))

SpecRound == Init /\ [][NextRound]_vars

\* One participant playing alone against the clock.
NextTimer ==
    \/ \E hand \in Hands : Quiet(joinCollaboration(1, hand))
    \/ Quiet(startThinkingTime(1))
    \/ \E c \in CardIds : Quiet(handleCardClick(1, c))
    \/ \E o \in Operations : Quiet(handleOperationClick(1, o))
    \/ Quiet(TimerTick(1))
    \/ Quiet(ServerApply(1))
    \/ Quiet(Advance(ThinkingMs))

SpecTimer == Init /\ [][NextTimer]_vars

\* The participants in the lobby: joins, turns, the interval timers and the
\* New Game button against the clock, with no card played.
NextLobby ==
    \/ \E p \in Users, hand \in Deals : Quiet(joinCollaboration(p, hand))
    \/ \E p \in Users : Quiet(startThinkingTime(p))
    \/ \E p \in Users : Called(TimerTick(p), Call("TimerTick", p, NoId))
    \/ \E p \in Users, hand \in Deals : Quiet(resetGame(p, hand))
    \/ \E p \in Users : Quiet(ServerApply(p))
    \/ \E p \in Users : Quiet(Disconnect(p))
    \/ \E p \in Users : Quiet(Open(p))
    \/ \E t \in Instants : Quiet(AdvanceTo(t))

SpecLobby == Init /\ [][NextLobby]_vars

\* The lobby with the scheduling of the browser and of the database: the
\* interval runs every 200 ms, so inside every window of one second, and a
\* write that was sent arrives.  What the users do has no fairness.
NextFairLobby ==
    \/ \E p \in Users, hand \in Hands : Quiet(joinCollaboration(p, hand))
    \/ \E p \in Users : Quiet(startThinkingTime(p))
    \/ \E p \in Users : Quiet(TimerTick(p))
    \/ \E p \in Users, hand \in Hands : Quiet(resetGame(p, hand))
    \/ \E p \in Users : Quiet(ServerApply(p))
    \/ \E p \in Users : Quiet(Disconnect(p))
    \/ \E p \in Users : Quiet(Open(p))
    \/ Quiet(Tock)

FairLobby ==
    /\ Init /\ [][NextFairLobby]_vars
    /\ \A p \in Users : WF_vars(Quiet(TimerTick(p)))
    /\ \A p \in Users : WF_vars(Quiet(ServerApply(p)))
    /\ WF_vars(Quiet(Tock))

\* A participant playing a round while another joins: the hand of a join
\* is one of two, so a document that a second join sets is told from the
\* one it replaces.
NextDeal ==
    \/ \E p \in Users, hand \in Deals : Quiet(joinCollaboration(p, hand))
    \/ Quiet(startThinkingTime(1))
    \/ \E c \in Clicked : Quiet(handleCardClick(1, c))
    \/ \E o \in Operations : Quiet(handleOperationClick(1, o))
    \/ \E p \in Users : Quiet(ServerApply(p))

SpecDeal == Init /\ [][NextDeal]_vars

\* The round that is played against the timers of two participants: the
\* hand 1, 2, 3, 4, which multiplications alone win (1 * 2 * 3 * 4).
WinHands == {[c \in CardIds |-> c + 1]}

WinOperations == {"multiply"}

\* A participant playing a round to its end while the interval of another
\* runs: the first plays, the clock reaches the reset deadline of the
\* round, and the intervals of both run.
NextWin ==
    \/ \E p \in Users, hand \in WinHands : Quiet(joinCollaboration(p, hand))
    \/ Quiet(startThinkingTime(1))
    \/ \E c \in CardIds : Quiet(handleCardClick(1, c))
    \/ \E o \in WinOperations : Quiet(handleOperationClick(1, o))
    \/ \E p \in Users : Quiet(TimerTick(p))
    \/ \E p \in Users : Quiet(ServerApply(p))
    \/ Quiet(AdvanceTo(ResetMs))

SpecWin == Init /\ [][NextWin]_vars

\* The solver on a hand, with no session.
InitSolver ==
    /\ now = 0
    /\ db = NoGame
    /\ users = [p \in Users |-> NoUserDoc]
    /\ view = [p \in Users |-> NoGame]
    /\ outbox = [p \in Users |-> <<>>]
    /\ me = [p \in Users |-> [status |-> "out", score |-> 0]]
    /\ saved = [p \in Users |-> DefaultSavedSeconds]
    /\ applied = 0
    /\ last = NoCall
    /\ \E hand \in SolverHands : solver = Solving(hand)

\* A step of the solver.
Step(A) == A /\ UNCHANGED <<session, last>>

NextSolver ==
    \/ Step(recurse)
    \/ Step(returnFalse)
    \/ Step(returnTrue)

SpecSolver == InitSolver /\ [][NextSolver]_vars

(***************************************************************************)
(* Properties                                                              *)
(***************************************************************************)
\* The step is the call of the handler act by p.
CallOf(act, p) == last'.act = act /\ last'.by = p

\* The step is a handleCardClick of p on its turn, on a card that is not the
\* selected one, with an operation pending: the call of performOperation.
\* It is applied if it has issued its writes (gcd has returned).
CallsOperation(p) ==
    LET g == view[p]
    IN  /\ CallOf("handleCardClick", p)
        /\ Joined(p) /\ g.exists /\ g.gameActive
        /\ g.thinkingMode /\ g.thinkingUserId = p
        /\ g.selectedCardId # NoId /\ g.cards[g.selectedCardId].exists
        /\ g.currentOperation # NoOperation
        /\ last'.card # g.selectedCardId
        /\ g.cards[last'.card].exists
        /\ g.cards[last'.card].selectedBy \in {NoUser, p}

AppliesOperation(p) == CallsOperation(p) /\ outbox'[p] # outbox[p]

\* The card holds integers without a common factor.
LowestTerms(card) ==
    /\ ~card.approx
    /\ IsInteger(card.num) /\ IsInteger(card.denom)
    /\ Euclid(Abs(card.num[1]), Abs(card.denom[1])) = 1

\* The card holds num = 24 * denom.
Exactly24(card) ==
    ~card.approx /\ card.num = JsMul(Num(Target), card.denom)

\* The last write in flight from p is the score of a win of p.
WinIssued(ob, p) ==
    /\ ob # <<>>
    /\ ob[Len(ob)].kind = "updateScore"
    /\ ob[Len(ob)].then = WinPatch(p)

\* C1: a handleCardClick by a participant who does not hold the turn (no
\* turn is open, or another participant holds it) writes nothing: the
\* database, every snapshot and every queue of writes stay as they were,
\* whatever card is clicked and whoever has selected it.
C1_NonHolderClickWritesNothing ==
    [][\A p \in Users :
          (/\ CallOf("handleCardClick", p)
           /\ ~(view[p].thinkingMode /\ view[p].thinkingUserId = p))
              => UNCHANGED session]_vars

\* A participant has clicked a card that the holder of the turn, another
\* participant, has selected.
C1_Witness ==
    /\ last.act = "handleCardClick"
    /\ Joined(last.by)
    /\ view[last.by].gameActive
    /\ view[last.by].thinkingMode
    /\ view[last.by].thinkingUserId \notin {NoUser, last.by}
    /\ view[last.by].cards[last.card].selected
    /\ view[last.by].cards[last.card].selectedBy = view[last.by].thinkingUserId

\* C2: while a turn is open in the database, its holder and its deadline
\* stay: no write of another participant's startThinkingTime replaces them
\* before the turn is closed.
C2_HolderKeptUntilResolved ==
    [][(db.thinkingMode /\ db'.thinkingMode)
          => /\ db'.thinkingUserId = db.thinkingUserId
             /\ db'.thinkingEndTime = db.thinkingEndTime]_vars

\* C3: startThinkingTime of a participant whose snapshot shows an active
\* round and no turn writes thinkingMode, thinkingUserId = the participant
\* and thinkingEndTime = now + 10 s and nothing else; in every other state
\* it writes nothing.
C3_RequestTurn ==
    [][\A p \in Users :
          CallOf("startThinkingTime", p) =>
              IF /\ Joined(p) /\ view[p].exists
                 /\ view[p].gameActive /\ ~view[p].thinkingMode
              THEN /\ view'[p] = [view[p] EXCEPT
                                     !.thinkingMode = TRUE,
                                     !.thinkingUserId = p,
                                     !.thinkingEndTime = now + ThinkingMs]
                   /\ outbox'[p] = Append(outbox[p], UpdateGame(
                          [thinkingMode |-> TRUE, thinkingUserId |-> p,
                           thinkingEndTime |-> now + ThinkingMs]))
                   /\ \A q \in Users \ {p} :
                          view'[q] = view[q] /\ outbox'[q] = outbox[q]
                   /\ UNCHANGED <<now, db, users, me, applied>>
              ELSE UNCHANGED session]_vars

\* A participant has taken the turn.
C3_Witness ==
    /\ last.act = "startThinkingTime"
    /\ view[last.by].thinkingMode
    /\ view[last.by].thinkingUserId = last.by
    /\ view[last.by].thinkingEndTime = now + ThinkingMs
    /\ outbox[last.by] # <<>>

\* C4: with every write arrived, the board of the database holds between
\* 1 and 4 cards, 4 minus the operations applied since it was set or
\* restored.
C4_CardCount ==
    (db.exists /\ \A p \in Users : outbox[p] = <<>>)
        => /\ Cardinality(CardsOf(db)) \in 1 .. NumCards
           /\ Cardinality(CardsOf(db)) = NumCards - applied

\* C5: every card of the database holds an integer num and an integer
\* denom without a common factor.
C5_LowestTerms == \A c \in CardsOf(db) : LowestTerms(db.cards[c])

\* C6: the card an applied operation stores holds the exact rational
\* a + b, a - b, a * b or a / b of the two cards it was called on.
C6_ExactArithmetic ==
    [][\A p \in Users :
          AppliesOperation(p) =>
              LET g == view[p]
                  r == view'[p].cards[last'.card]
              IN  /\ ~r.approx
                  /\ JsDiv(r.num, r.denom) =
                         ValueOf(Value(g.cards[g.selectedCardId]),
                                 Value(g.cards[last'.card]),
                                 g.currentOperation)]_vars

\* C7: the holder's click that divides by a card whose num is 0 changes
\* nothing: no card, no selection, no operation, no history, no write.
C7_DivideByZero ==
    [][\A p \in Users :
          (/\ CallsOperation(p)
           /\ view[p].currentOperation = "divide"
           /\ view[p].cards[last'.card].num = Zero)
              => UNCHANGED session]_vars

\* The holder has clicked a card of value 0 with divide pending.
C7_Witness ==
    /\ last.act = "handleCardClick"
    /\ view[last.by].thinkingMode /\ view[last.by].thinkingUserId = last.by
    /\ view[last.by].gameActive
    /\ view[last.by].currentOperation = "divide"
    /\ view[last.by].selectedCardId \notin {NoId, last.card}
    /\ view[last.by].cards[view[last.by].selectedCardId].exists
    /\ view[last.by].cards[last.card].exists
    /\ view[last.by].cards[last.card].num = Zero

\* C8: an applied operation on the selected card a and the clicked card b
\* leaves b under its id, selected by the actor, deletes a, marks the
\* history entry of a, selects b and clears the operation; the other cards,
\* the other history entries and the rest of the document are unchanged.
C8_ApplyOperation ==
    [][\A p \in Users :
          AppliesOperation(p) =>
              LET g == view[p]
                  h == view'[p]
                  a == g.selectedCardId
                  b == last'.card
              IN  /\ h.cards[b].exists /\ h.cards[b].id = b
                  /\ h.cards[b].selected /\ h.cards[b].selectedBy = p
                  /\ ~h.cards[a].exists
                  /\ \A c \in CardIds \ {a, b} : h.cards[c] = g.cards[c]
                  /\ DOMAIN h.cardHistory = DOMAIN g.cardHistory
                  /\ \A i \in DOMAIN g.cardHistory :
                         h.cardHistory[i] =
                             IF g.cardHistory[i].id = a
                             THEN [g.cardHistory[i] EXCEPT !.isRemoved = TRUE]
                             ELSE g.cardHistory[i]
                  /\ \E i \in DOMAIN g.cardHistory : g.cardHistory[i].id = a
                  /\ h.selectedCardId = b
                  /\ h.currentOperation = NoOperation
                  /\ h = [g EXCEPT !.cards = h.cards,
                                   !.cardHistory = h.cardHistory,
                                   !.selectedCardId = b,
                                   !.currentOperation = NoOperation]]_vars

\* An operation has been applied: its result is selected by the actor and
\* the history holds a removed card.
C8_Witness ==
    /\ last.act = "handleCardClick"
    /\ view[last.by].selectedCardId = last.card
    /\ view[last.by].cards[last.card].selectedBy = last.by
    /\ Cardinality(CardsOf(view[last.by])) = NumCards - 1
    /\ \E i \in DOMAIN view[last.by].cardHistory :
           view[last.by].cardHistory[i].isRemoved
    /\ Len(outbox[last.by]) >= 3

\* C9: a won round whose board holds one card holds num = 24 * denom.
C9_WonIsExactly24 ==
    (db.exists /\ db.gameWon /\ Cardinality(CardsOf(db)) = 1)
        => \A c \in CardsOf(db) : Exactly24(db.cards[c])

\* C10: an applied operation ends the round as a win of the actor if it
\* leaves one card that holds exactly 24, and only then; the operation
\* itself leaves gameActive and gameWon as they were.
C10_WinOnExactly24 ==
    [][\A p \in Users :
          AppliesOperation(p) =>
              LET h == view'[p]
                  one == /\ Cardinality(CardsOf(h)) = 1
                         /\ Exactly24(h.cards[last'.card])
              IN  /\ one <=> WinIssued(outbox'[p], p)
                  /\ h.gameActive = view[p].gameActive
                  /\ h.gameWon = view[p].gameWon]_vars

\* C11: a score grows by 1 with each round its participant wins and at no
\* other step.  A session that initializeGame has set up once (SpecTimer:
\* one join, no New Game) has one round to win, so no score passes 1,
\* neither in the roster nor in a participant's currentUser.
C11_OnePointPerRound ==
    \A p \in Users : users[p].score <= 1 /\ me[p].score <= 1

\* C12: in every state of the document at the database, the states between
\* the writes of one handler included, the card that selectedCardId names
\* is on the board, and an operation is pending only with a card selected.
C12_SelectionConsistent ==
    db.exists =>
        /\ (db.selectedCardId # NoId => db.cards[db.selectedCardId].exists)
        /\ (db.currentOperation # NoOperation => db.selectedCardId # NoId)

\* The step is the failure branch of endThinkingTime run by p: p's snapshot
\* of an active round leaves the turn with the round still active, by
\* writes of p.
FailsTurn(p) ==
    /\ view[p].gameActive /\ view[p].thinkingMode
    /\ view'[p].gameActive /\ ~view'[p].thinkingMode
    /\ Len(outbox'[p]) > Len(outbox[p])

\* The time that remained on the reset deadline when the turn of the
\* snapshot g was entered, thinkingEndTime - 10 s being the entry.
RemainingAtEntry(g) ==
    IF g.timerEndTime > g.thinkingEndTime - ThinkingMs
    THEN g.timerEndTime - (g.thinkingEndTime - ThinkingMs)
    ELSE 0

\* C13: a turn entered with R left on the reset deadline and resolved as a
\* failure at time T leaves the reset deadline at T + R, and the turn Idle
\* with no holder and no thinking deadline.
C13_ResetDeadlineRestored ==
    [][\A p \in Users :
          FailsTurn(p) =>
              /\ view'[p].timerEndTime = now + RemainingAtEntry(view[p])
              /\ view'[p].thinkingUserId = NoUser
              /\ view'[p].thinkingEndTime = NoTime]_vars

\* C14: the failure of a turn, after 0 to 3 applied operations, leaves the
\* board as the round began: the four cards of the hand with their first
\* values, none selected, no selected card and no operation pending.
C14_BoardRestored ==
    [][\A p \in Users :
          FailsTurn(p) =>
              /\ \E hand \in Hands :
                     view'[p].cards = InitialGameState(hand, now).cards
              /\ view'[p].selectedCardId = NoId
              /\ view'[p].currentOperation = NoOperation]_vars

\* A turn has failed after three applied operations: the board holds four
\* cards again, Idle, and the history still marks the three operands.
C14_Witness ==
    /\ view[1].gameActive /\ ~view[1].thinkingMode
    /\ Cardinality(CardsOf(view[1])) = NumCards
    /\ Cardinality({i \in DOMAIN view[1].cardHistory :
                        view[1].cardHistory[i].isRemoved}) = NumCards - 1
    /\ view[1].timerEndTime = now + saved[1] * MsPerSecond

\* A participant is in the roster.
SomeoneConnected == ~RosterEmpty(users)

\* The clock of the model is read inside the window of the thinking
\* deadline of g, now or later.
DeadlineComes(g) ==
    \E t \in Instants :
        /\ t >= now
        /\ t >= g.thinkingEndTime /\ t < g.thinkingEndTime + MsPerSecond

\* The turn with the deadline e is open in the document, in an active
\* round.
TurnOpen(e) ==
    db.exists /\ db.gameActive /\ db.thinkingMode /\ db.thinkingEndTime = e

\* The deadlines of the turns entered at the instants of the model.
Deadlines == {t + ThinkingMs : t \in Instants}

\* C15: an open turn whose deadline comes is resolved (the turn becomes
\* Idle or the round ends) as long as a participant is connected, whether
\* or not its holder still is.
C15_TurnResolved ==
    \A e \in Deadlines :
        (TurnOpen(e) /\ DeadlineComes(db) /\ SomeoneConnected)
            ~> (~TurnOpen(e) \/ ~SomeoneConnected)

\* The step is the arrival at the database of a write of p that updates
\* gameState with a value for the field f.
Arrives(p, f) ==
    /\ outbox[p] # <<>>
    /\ Head(outbox[p]).kind = "update"
    /\ f \in DOMAIN Head(outbox[p]).val
    /\ outbox'[p] = Tail(outbox[p])
    /\ db' = ApplyWrite(db, Head(outbox[p]))

\* The write that arrives from p is the reset timeout (gameActive = false,
\* gameWon = false).
ArrivesResetTimeout(p) ==
    /\ Arrives(p, "gameActive")
    /\ ~Head(outbox[p]).val.gameActive /\ ~Head(outbox[p]).val.gameWon

\* The write that arrives from p closes a turn (thinkingMode = false).
ArrivesTurnEnd(p) ==
    Arrives(p, "thinkingMode") /\ ~Head(outbox[p]).val.thinkingMode

\* C16: an expired deadline has its transition applied to the document
\* once, however many intervals run and in however many processes: the
\* reset timeout is applied to an active Idle round whose reset deadline has
\* passed, the end of a turn to an open turn whose thinking deadline has
\* passed, and neither to a document that another application has changed
\* already.
C16_AppliedOncePerExpiry ==
    [][\A p \in Users :
          /\ ArrivesResetTimeout(p) =>
                 /\ db.gameActive /\ ~db.thinkingMode
                 /\ db.timerEndTime # NoTime /\ db.timerEndTime <= now
          /\ ArrivesTurnEnd(p) =>
                 /\ db.gameActive /\ db.thinkingMode
                 /\ db.thinkingEndTime # NoTime /\ db.thinkingEndTime <= now]_vars

\* The step adds a reset timeout to the writes of p.
IssuesResetTimeout(p) ==
    /\ Len(outbox'[p]) > Len(outbox[p])
    /\ \E i \in (Len(outbox[p]) + 1) .. Len(outbox'[p]) :
           /\ outbox'[p][i].kind = "update"
           /\ "gameActive" \in DOMAIN outbox'[p][i].val
           /\ "gameWon" \in DOMAIN outbox'[p][i].val
           /\ ~outbox'[p][i].val.gameWon

ArrivesSet(p) ==
    /\ outbox[p] # <<>>
    /\ Head(outbox[p]).kind = "set"
    /\ outbox'[p] = Tail(outbox[p])
    /\ db' = ApplyWrite(db, Head(outbox[p]))

\* C18: a join leaves a document that exists as it is: the set of a join,
\* also of one that raced with the join that created the document, changes
\* neither the cards, nor the history, nor the deadlines, nor the turn.
C18_JoinKeepsSession ==
    [][\A p \in Users :
          (db.exists /\ ArrivesSet(p)) =>
              /\ db'.cards = db.cards
              /\ db'.cardHistory = db.cardHistory
              /\ db'.timerEndTime = db.timerEndTime
              /\ db'.thinkingEndTime = db.thinkingEndTime
              /\ db'.thinkingMode = db.thinkingMode
              /\ db'.thinkingUserId = db.thinkingUserId]_vars

\* The step adds a set of gameState to the writes of p: initializeGame,
\* called by joinCollaboration or by resetGame.
IssuesSet(p) ==
    /\ Len(outbox'[p]) > Len(outbox[p])
    /\ outbox'[p][Len(outbox'[p])].kind = "set"

\* The document g is a round dealt at time t.
FreshRound(g, t) ==
    /\ g.exists
    /\ \A c \in CardIds :
           /\ g.cards[c].exists /\ g.cards[c].id = c
           /\ IsInteger(g.cards[c].num)
           /\ g.cards[c].num[1] \in 1 .. 10
           /\ g.cards[c].denom = One /\ ~g.cards[c].approx
           /\ ~g.cards[c].selected /\ g.cards[c].selectedBy = NoUser
    /\ Len(g.cardHistory) = NumCards
    /\ \A i \in 1 .. NumCards :
           /\ g.cardHistory[i].id = i - 1
           /\ g.cardHistory[i].num = g.cards[i - 1].num
           /\ g.cardHistory[i].denom = One
           /\ ~g.cardHistory[i].isRemoved
    /\ g.selectedCardId = NoId /\ g.currentOperation = NoOperation
    /\ ~g.thinkingMode /\ g.thinkingUserId = NoUser
    /\ g.thinkingEndTime = NoTime
    /\ g.timerEndTime = t + ResetMs
    /\ g.gameActive /\ ~g.gameWon /\ g.lastWinner = NoUser

\* C19: every initialisation, by the first join or by New Game, writes a
\* round dealt now: card_0 .. card_3 with integers 1 .. 10 over 1,
\* unselected, the history of the same four values with nothing removed, no
\* selection, no operation, no turn, the reset deadline 30 s from now,
\* active, not won, no last winner; the caller's snapshot is that round,
\* and so is the document when the set arrives.
C19_FreshRound ==
    [][\A p \in Users :
          /\ IssuesSet(p) =>
                 /\ FreshRound(outbox'[p][Len(outbox'[p])].val, now)
                 /\ view'[p] = outbox'[p][Len(outbox'[p])].val
          /\ ArrivesSet(p) =>
                 /\ db' = Head(outbox[p]).val
                 /\ \E t \in Instants : FreshRound(db', t)]_vars

\* A participant has pressed New Game after a round that ended.
C19_Witness ==
    \E p \in Users :
        /\ Joined(p) /\ now > 0
        /\ outbox[p] # <<>>
        /\ outbox[p][Len(outbox[p])].kind = "set"
        /\ view[p].gameActive /\ view[p].timerEndTime = now + ResetMs
        /\ db.exists /\ ~db.gameActive

\* No participant is in the roster of the database.
NobodyInRoster == \A q \in Users : ~users[q].exists

\* Some page is open.
SomePageOpen == \E q \in Users : me[q].status # "closed"

\* The step is the Join Game button of p.
Joins(p) == me[p].status = "out" /\ me'[p].status = "joining"

SameEntries(h, k) ==
    /\ Len(h) = Len(k)
    /\ \A i \in DOMAIN h :
           /\ h[i].id = k[i].id
           /\ h[i].num = k[i].num
           /\ h[i].denom = k[i].denom

\* C21: the document always holds a cardHistory of four entries, and from
\* one initialisation (the arrival of a set) to the next no write that
\* arrives, the history of an operation computed on a stale snapshot
\* included, changes the id or the value of an entry or their number.
C21_HistoryFixed ==
    /\ [](db.exists => Len(db.cardHistory) = NumCards)
    /\ [][(db.exists /\ db'.exists /\ ~\E p \in Users : ArrivesSet(p))
              => SameEntries(db.cardHistory, db'.cardHistory)]_vars

\* C28: while a turn is open in the document the reset timer is paused: no
\* write of any process, also of one that ran its interval on a snapshot
\* that showed no turn, ends the round as a loss before the turn is closed.
C28_ResetPausedInTurn ==
    [][(/\ db.exists /\ db.gameActive /\ db.thinkingMode
        /\ db'.exists /\ ~db'.gameActive)
           => db'.gameWon]_vars

\* C29: a round that has ended (gameActive = false) has no turn: no
\* thinkingMode, no holder and no thinking deadline, whether it ended by
\* the win of an operation, by the win of a thinking timeout or by the
\* reset timeout.
C29_EndedIsIdle ==
    (db.exists /\ ~db.gameActive)
        => /\ ~db.thinkingMode
           /\ db.thinkingUserId = NoUser
           /\ db.thinkingEndTime = NoTime

\* C24: handleOperationClick writes only when the caller's snapshot shows
\* a selected card whose selectedBy is the caller and the turn is the
\* caller's; it then sets currentOperation to an operation and nothing
\* else.  In every other case it changes nothing.
C24_ChooseOperation ==
    [][\A p \in Users :
          CallOf("handleOperationClick", p) =>
              LET g == view[p]
              IN  IF /\ g.selectedCardId # NoId
                     /\ g.cards[g.selectedCardId].selectedBy = p
                     /\ g.thinkingMode /\ g.thinkingUserId = p
                  THEN \E o \in Operations :
                           /\ view'[p] = [g EXCEPT !.currentOperation = o]
                           /\ outbox'[p] = Append(outbox[p],
                                  UpdateGame([currentOperation |-> o]))
                           /\ \A q \in Users \ {p} :
                                  view'[q] = view[q] /\ outbox'[q] = outbox[q]
                           /\ UNCHANGED <<now, db, users, me, saved, applied>>
                  ELSE UNCHANGED session]_vars

\* The holder of the turn has chosen an operation for the card it selected.
C24_Witness ==
    /\ last.act = "handleOperationClick"
    /\ view[last.by].thinkingUserId = last.by
    /\ view[last.by].currentOperation # NoOperation
    /\ view[last.by].selectedCardId # NoId
    /\ view[last.by].cards[view[last.by].selectedCardId].selectedBy = last.by
    /\ outbox[last.by] # <<>>
    /\ outbox[last.by][Len(outbox[last.by])].kind = "update"
    /\ "currentOperation" \in DOMAIN outbox[last.by][Len(outbox[last.by])].val

\* C25: a handleCardClick of the holder on a card that the board does not
\* hold, or that another participant has selected, changes nothing: it is
\* rejected before the self-healing and every other rule.
C25_RejectedClick ==
    [][\A p \in Users :
          (/\ CallOf("handleCardClick", p)
           /\ view[p].thinkingMode /\ view[p].thinkingUserId = p
           /\ \/ ~view[p].cards[last'.card].exists
              \/ view[p].cards[last'.card].selectedBy \notin {NoUser, p})
              => UNCHANGED session]_vars

\* The holder has clicked a card that an operation has removed from the
\* board of an active round.
C25_Witness ==
    /\ last.act = "handleCardClick"
    /\ Joined(last.by)
    /\ view[last.by].gameActive
    /\ view[last.by].thinkingMode /\ view[last.by].thinkingUserId = last.by
    /\ ~view[last.by].cards[last.card].exists
    /\ Cardinality(CardsOf(view[last.by])) = NumCards - 1

\* The test of the self-healing branch on the snapshot g: selectedCardId
\* names a card the board does not hold, or an operation is pending with no
\* card selected.
Inconsistent(g) ==
    \/ g.selectedCardId # NoId /\ ~g.cards[g.selectedCardId].exists
    \/ g.currentOperation # NoOperation /\ g.selectedCardId = NoId

\* The step is a click of the holder p, on a card of the board that no
\* other participant has selected, on an inconsistent snapshot.
Heals(p) ==
    /\ CallOf("handleCardClick", p)
    /\ Joined(p) /\ view[p].gameActive
    /\ view[p].thinkingMode /\ view[p].thinkingUserId = p
    /\ view[p].cards[last'.card].exists
    /\ view[p].cards[last'.card].selectedBy \in {NoUser, p}
    /\ Inconsistent(view[p])

\* C26: the holder's click on an inconsistent snapshot clears
\* selectedCardId and currentOperation with one write and does nothing
\* else: no card is selected or changed, no operation is applied.  The
\* snapshot it leaves is consistent with no card selected, so the next
\* click is a first selection and not a self-healing again.
C26_SelfHealingOnce ==
    [][\A p \in Users :
          Heals(p) =>
              /\ view'[p] = [view[p] EXCEPT !.selectedCardId = NoId,
                                            !.currentOperation = NoOperation]
              /\ outbox'[p] = Append(outbox[p], UpdateGame(
                     [selectedCardId |-> NoId,
                      currentOperation |-> NoOperation]))
              /\ ~Inconsistent(view'[p])
              /\ \A q \in Users \ {p} :
                     view'[q] = view[q] /\ outbox'[q] = outbox[q]
              /\ UNCHANGED <<now, db, users, me, saved, applied>>]_vars

\* The holder has clicked a card on a snapshot that showed an operation
\* pending with no card selected, and the click has cleared the operation.
C26_Witness ==
    /\ last.act = "handleCardClick"
    /\ db.exists /\ Inconsistent(db)
    /\ view[last.by].thinkingMode /\ view[last.by].thinkingUserId = last.by
    /\ ~Inconsistent(view[last.by])
    /\ view[last.by].selectedCardId = NoId
    /\ outbox[last.by] = <<UpdateGame([selectedCardId |-> NoId,
                                      currentOperation |-> NoOperation])>>

\* The step is a click of the holder p that switches the selection: a card
\* is selected, no operation is pending, and the card clicked is another
\* card of the board.
Switches(p) ==
    /\ CallOf("handleCardClick", p)
    /\ Joined(p) /\ view[p].gameActive
    /\ view[p].thinkingMode /\ view[p].thinkingUserId = p
    /\ view[p].selectedCardId # NoId
    /\ view[p].cards[view[p].selectedCardId].exists
    /\ view[p].currentOperation = NoOperation
    /\ last'.card # view[p].selectedCardId
    /\ view[p].cards[last'.card].exists
    /\ view[p].cards[last'.card].selectedBy \in {NoUser, p}

\* The step is the arrival at the database of the first write of a switch
\* of p: the deselection of the card that was selected, which the
\* selection of another card follows.
ArrivesSwitch(p) ==
    /\ Len(outbox[p]) >= 3
    /\ Head(outbox[p]).kind = "updateCard"
    /\ Head(outbox[p]).val = [selected |-> FALSE, selectedBy |-> NoUser]
    /\ outbox[p][2].kind = "updateCard"
    /\ outbox[p][2].val = [selected |-> TRUE, selectedBy |-> p]
    /\ outbox[p][3].kind = "update"
    /\ outbox'[p] = Tail(outbox[p])
    /\ db' = ApplyWrite(db, Head(outbox[p]))

\* The cards of g with the selected flag.
SelectedCards(g) == {c \in CardIds : g.cards[c].exists /\ g.cards[c].selected}

\* C27: a switch of the selection leaves, in the holder's snapshot, the
\* clicked card as the one selected card, selected by the holder and named
\* by selectedCardId; and the document never shows the switch half done:
\* when its first write has arrived, selectedCardId names a card whose
\* selected flag is set and at most one card is selected.
C27_SwitchAtomic ==
    [][\A p \in Users :
          /\ Switches(p) =>
                 /\ SelectedCards(view'[p]) = {last'.card}
                 /\ view'[p].cards[last'.card].selectedBy = p
                 /\ view'[p].selectedCardId = last'.card
          /\ ArrivesSwitch(p) =>
                 /\ db'.selectedCardId # NoId
                 /\ db'.cards[db'.selectedCardId].selected
                 /\ Cardinality(SelectedCards(db')) <= 1]_vars

\* The operands of the token sequence dq, in their order.
Operands(dq) == SelectSeq(dq, LAMBDA t : t > 0)

\* The depth of the stack of a reverse-Polish evaluation after dq: one up
\* for every operand, one down for every operator.
Depth(dq) == 2 * Len(Operands(dq)) - Len(dq)

\* dq is a reverse-Polish expression: every operator finds two values on
\* the stack, and one value is left.
ValidRpn(dq) ==
    /\ \A k \in 1 .. Len(dq) : dq[k] < 0 => Depth(SubSeq(dq, 1, k - 1)) >= 2
    /\ Depth(dq) = 1

\* The numbers of s and of t are the same, each as many times.
SameNumbers(s, t) ==
    \A v \in SolverValues :
        Cardinality({k \in DOMAIN s : s[k] = v}) =
            Cardinality({k \in DOMAIN t : t[k] = v})

\* The name performOperation has for the operator token i.
OperationOf(i) ==
    CASE i = -1 -> "add" [] i = -2 -> "subtract"
      [] i = -3 -> "multiply" [] i = -4 -> "divide"

\* The exact rationals on the stack after the reverse-Polish expression
\* dq; a division by zero gives NaN, and so does every operation on it.
RECURSIVE ExactStack(_, _)
ExactStack(dq, stack) ==
    IF dq = <<>> THEN stack
    ELSE IF Head(dq) > 0
    THEN ExactStack(Tail(dq), Append(stack, Num(Head(dq))))
    ELSE LET n == Len(stack)
         IN  ExactStack(Tail(dq),
                 Append(SubSeq(stack, 1, n - 2),
                        ValueOf(stack[n - 1], stack[n], OperationOf(Head(dq)))))

\* The exact value of the reverse-Polish expression dq.
ExactValue(dq) == ExactStack(dq, <<>>)[1]

\* C22: a solution that solve returns for a hand is a sequence of 7
\* tokens, the four numbers of the hand, each as often as the hand holds
\* it, and three operators -1 .. -4, in reverse-Polish order, whose exact
\* rational value is 24 with no division by zero on the way.
C22_SolverSound ==
    Solution # <<>> =>
        /\ Len(Solution) = SolutionLength
        /\ Len(Operands(Solution)) = NumCards
        /\ SameNumbers(Operands(Solution), solver.hand)
        /\ \A k \in 1 .. Len(Solution) :
               Solution[k] < 0 => Solution[k] \in (-NumOperators) .. -1
        /\ ValidRpn(Solution)
        /\ ExactValue(Solution) = Num(Target)

\* solve has returned 8 / (3 - 8 / 3) for the hand 3, 3, 8, 8.
C22_Witness ==
    /\ solver.status = "found"
    /\ solver.hand = <<3, 3, 8, 8>>
    /\ Solution = <<8, 3, 8, 3, -4, -2, -4>>

\* The reverse-Polish shapes of four operands and three operators: TRUE
\* marks the place of an operand.
Shapes ==
    {s \in [1 .. SolutionLength -> BOOLEAN] :
        /\ Cardinality({k \in DOMAIN s : s[k]}) = NumCards
        /\ \A k \in DOMAIN s :
               ~s[k] => 2 * Cardinality({j \in 1 .. (k - 1) : s[j]}) - (k - 1) >= 2}

\* The orders in which the four numbers of a hand can be taken.
Orders ==
    {f \in [1 .. NumCards -> 1 .. NumCards] :
        \A j, k \in 1 .. NumCards : f[j] = f[k] => j = k}

\* The expression of the shape s with the numbers of the hand in the
\* order f and the operators o.
Arrangement(hand, s, f, o) ==
    [k \in 1 .. SolutionLength |->
        IF s[k]
        THEN hand[f[Cardinality({j \in 1 .. k : s[j]})]]
        ELSE o[Cardinality({j \in 1 .. k : ~s[j]})]]

\* Some arrangement of the hand is exactly 24.
Solvable(hand) ==
    \E s \in Shapes, f \in Orders,
       o \in [1 .. (SolutionLength - NumCards) -> (-NumOperators) .. -1] :
        ExactValue(Arrangement(hand, s, f, o)) = Num(Target)

\* C23: solve returns the empty sequence only for a hand of which no
\* arrangement, with three operators of + - * / in any reverse-Polish
\* shape, is 24; for 3, 3, 8, 8 it returns a solution.
C23_SolverComplete ==
    /\ solver.status = "none" => ~Solvable(solver.hand)
    /\ (solver.status # "running" /\ solver.hand = <<3, 3, 8, 8>>)
           => Solution # <<>>

\* solve has returned no solution for a hand: 1, 1, 1, 1 has none.
C23_Witness ==
    /\ solver.status = "none"
    /\ solver.hand = <<1, 1, 1, 1>>
    /\ Solution = <<>>

\* C30: in every call of recurse the guard dq.length + 2 * nums.length < 7
\* is true exactly when the stack of dq is 2 deep or deeper; every
\* operator of dq was pushed on a prefix 2 deep or deeper, so calc pops no
\* empty stack on any candidate; and a dq of 7 tokens holds 4 operands and
\* 3 operators.
C30_OperatorNeedsTwo ==
    solver.status # "idle" =>
        /\ Len(solver.dq) <= SolutionLength
        /\ (Len(solver.dq) + 2 * Len(solver.nums) < SolutionLength)
               <=> Depth(solver.dq) >= 2
        /\ \A k \in 1 .. Len(solver.dq) :
               solver.dq[k] < 0 => Depth(SubSeq(solver.dq, 1, k - 1)) >= 2
        /\ Len(solver.dq) = SolutionLength =>
               /\ Len(Operands(solver.dq)) = NumCards
               /\ Len(solver.dq) - Len(Operands(solver.dq)) =
                      SolutionLength - NumCards
               /\ Len(StackAfter(solver.dq, <<>>)) = 1

\* recurse has a candidate of 7 tokens for calc whose third token is an
\* operator, pushed on a stack of two operands, and whose last operator is
\* a division by a difference that is zero.
C30_Witness ==
    /\ solver.status = "running"
    /\ Len(solver.dq) = SolutionLength
    /\ solver.dq[3] < 0
    /\ solver.dq[SolutionLength] = -NumOperators
    /\ ~IsFinite(calc(solver.dq))

\* C35: with every write arrived, an entry of the history has isRemoved
\* set exactly when the board holds no card of its id, after an applied
\* operation and after a failed turn has restored the board.
C35_RemovedIsAbsent ==
    (db.exists /\ \A p \in Users : outbox[p] = <<>>) =>
        \A k \in DOMAIN db.cardHistory :
            db.cardHistory[k].isRemoved <=>
                ~db.cards[db.cardHistory[k].id].exists

\* C36: with every write arrived, at most one card of the document is
\* selected, a card is selected exactly when selectedCardId names it, and
\* the selected card's selectedBy is the holder of the turn (after a win,
\* the winner).
C36_OneSelection ==
    (db.exists /\ \A p \in Users : outbox[p] = <<>>) =>
        /\ Cardinality(SelectedCards(db)) <= 1
        /\ \A c \in CardIds :
               (db.cards[c].exists /\ db.cards[c].selected)
                   <=> db.selectedCardId = c
        /\ \A c \in SelectedCards(db) :
               db.cards[c].selectedBy =
                   IF db.thinkingMode THEN db.thinkingUserId ELSE db.lastWinner

\* C33: a round that is won stays won, with its winner, until a set
\* initialises a new round: no write that arrives, the reset timeout of a
\* process that ran its interval on an older snapshot included, sets gameWon
\* to false or changes lastWinner.
C33_WinIsKept ==
    [][(/\ db.exists /\ db.gameWon /\ db.lastWinner # NoUser
        /\ ~\E p \in Users : ArrivesSet(p))
           => /\ db'.gameWon
              /\ db'.lastWinner = db.lastWinner]_vars


\* C34: while the round has ended (gameActive = false at the database and in
\* the snapshot of the caller, no write in flight), a card click, an
\* operation click or a request of the turn issues no write: cards,
\* selection, pending operation and turn stay as they are.
EndedHandlers == {"handleCardClick", "handleOperationClick", "startThinkingTime"}

C34_EndedIsFrozen ==
    [][(/\ last'.act \in EndedHandlers
        /\ db.exists /\ ~db.gameActive
        /\ view[last'.by].exists /\ ~view[last'.by].gameActive
        /\ \A p \in Users : outbox[p] = <<>>)
           => /\ outbox' = outbox
              /\ view' = view]_vars


\* C32: for every pair of cards on the board and every operation whose
\* rdenom is not zero, gcd(rnum, rdenom) returns, and returns a positive
\* integer.  (Cards that stand for a rounded double are left aside.)
PositiveInteger(x) == x # Diverges /\ IsFinite(x) /\ x[2] = 1 /\ x[1] > 0

C32_GcdReturns ==
    db.exists =>
        \A a \in CardsOf(db), b \in CardsOf(db), o \in Operations :
            (/\ a # b
             /\ ~db.cards[a].approx /\ ~db.cards[b].approx
             /\ IsFinite(Rnum(db.cards[a], db.cards[b], o))
             /\ IsFinite(Rdenom(db.cards[a], db.cards[b], o))
             /\ Rdenom(db.cards[a], db.cards[b], o) # Zero)
                => PositiveInteger(gcd(Rnum(db.cards[a], db.cards[b], o),
                                       Rdenom(db.cards[a], db.cards[b], o)))


\* C37: once every write has arrived, a participant who has joined and is
\* on the roster has a session document: the roster is never non-empty
\* with no gameState.
C37_JoinedHasSession ==
    (/\ \A p \in Users : outbox[p] = <<>>
     /\ \E p \in Users : Joined(p) /\ users[p].exists)
        => db.exists


\* The holder p may select the card c as a first selection: the tests of
\* handleCardClick pass and no card is selected.
MaySelect(p, c) ==
    LET g == view[p]
    IN  /\ Joined(p) /\ g.exists /\ g.gameActive /\ IsHolder(g, p)
        /\ g.cards[c].exists
        /\ g.selectedCardId = NoId /\ g.currentOperation = NoOperation

\* The session g with the card c selected by p, and with nothing selected.
Selected(g, p, c) ==
    [g EXCEPT !.cards[c].selected = TRUE, !.cards[c].selectedBy = p,
              !.selectedCardId = c]

Deselected(g, c) ==
    [g EXCEPT !.cards[c].selected = FALSE, !.cards[c].selectedBy = NoUser,
              !.selectedCardId = NoId, !.currentOperation = NoOperation]

\* The writes of a first selection (lines 447-456).
SelectWrites(p, c) ==
    <<UpdateCard(c, SelectPatch(p)), UpdateGame([selectedCardId |-> c])>>

\* C38: a first selection of the card c by the holder followed by a click
\* on c again leaves the session as it was before the first click: the
\* first click makes the session Selected, the arrival of the writes
\* changes nothing the holder sees, the second click makes it Deselected,
\* and Deselected of Selected is the session before the first click, with
\* c unselected, selectedBy cleared, no selectedCardId and no
\* currentOperation.
C38_SelectDeselect ==
    /\ [](\A c \in CardIds :
             MaySelect(1, c) =>
                 /\ Deselected(Selected(view[1], 1, c), c) = view[1]
                 /\ ~view[1].cards[c].selected
                 /\ view[1].cards[c].selectedBy = NoUser)
    /\ [][\A c \in CardIds :
             (last' = Call("handleCardClick", 1, c) /\ MaySelect(1, c))
                 => view'[1] = Selected(view[1], 1, c)]_vars
    /\ [][\A c \in CardIds :
             (/\ last' = NoCall
              /\ outbox[1] \in {SelectWrites(1, c), Tail(SelectWrites(1, c))})
                 => view'[1] = view[1]]_vars
    /\ [][\A c \in CardIds :
             (/\ last' = Call("handleCardClick", 1, c)
              /\ Joined(1) /\ view[1].exists /\ view[1].gameActive
              /\ IsHolder(view[1], 1)
              /\ view[1].cards[c].exists
              /\ view[1].selectedCardId = c
              /\ view[1].currentOperation = NoOperation
              /\ view[1].cards[c].selectedBy = 1)
                 => view'[1] = Deselected(view[1], c)]_vars

\* The holder has selected the card 2 and clicked it again: the writes of
\* the deselection are in flight and nothing is selected.
C38_Witness ==
    /\ last = Call("handleCardClick", 1, 2)
    /\ outbox[1] = <<UpdateCard(2, DeselectPatch), UpdateGame(ClearSelection)>>
    /\ view[1].selectedCardId = NoId
    /\ ~view[1].cards[2].selected


\* nums and dq of a call of recurse that the calls on the stack have made by
\* the tokens is: what the tokens pushed leave of nums, and the tokens.
RECURSIVE AtCall(_, _, _)
AtCall(nums, dq, is) ==
    IF is = <<>> THEN <<nums, dq>>
    ELSE LET i == Head(is)
         IN  IF i < 0 THEN AtCall(nums, Append(dq, i), Tail(is))
             ELSE AtCall(RemoveAt(nums, i), Append(dq, nums[i + 1]), Tail(is))

\* The loop variables of the callers of the call on top of the stack.
Callers == SubSeq(solver.i, 1, Len(solver.i) - 1)

\* The place of the loop variable i in the order of the two loops of
\* recurse: -1, -2, -3, -4, then 0, 1, ...
Place(i) == IF i < 0 THEN -i - 1 ELSE i + NumOperators

\* The stack s of loop variables comes before the stack t in the order of
\* the search: t goes on where s is, or is further in the loop of the first
\* call in which they differ.
Before(s, t) ==
    \/ Len(s) < Len(t) /\ SubSeq(t, 1, Len(s)) = s
    \/ \E k \in 1 .. Len(s) :
           /\ k <= Len(t)
           /\ SubSeq(s, 1, k - 1) = SubSeq(t, 1, k - 1)
           /\ Place(s[k]) < Place(t[k])

\* C39: the search ends, with at most 7 calls of recurse below that of
\* solve: every step ends it or moves the stack of loop variables forward
\* in the order of the search, and the stacks are finitely many (at most 8
\* loop variables, each from -4 to 4).  nums and dq of every call are,
\* whenever it goes on with its loop, what they were when it was called, so
\* that a return of false leaves them as they were at the call; a failed
\* solve ends with an empty dq and the nums of the hand.
C39_SearchEndsRestored ==
    /\ [](solver.status = "running" =>
             /\ Len(solver.i) <= SolutionLength + 1
             /\ \A k \in DOMAIN solver.i :
                    solver.i[k] >= -NumOperators /\ solver.i[k] <= NumCards
             /\ Len(solver.dq) = Len(solver.i) - 1
             /\ <<solver.nums, solver.dq>> = AtCall(solver.hand, <<>>, Callers))
    /\ [][solver.status = "running" =>
             \/ solver'.status # "running"
             \/ Before(solver.i, solver'.i)]_vars
    /\ [][(solver.status = "running" /\ solver'.status = "running"
              /\ Len(solver'.i) < Len(solver.i))
             => <<solver'.nums, solver'.dq>> =
                    AtCall(solver.hand, <<>>,
                           SubSeq(solver.i, 1, Len(solver.i) - 2))]_vars
    /\ [](solver.status = "none" =>
             solver.dq = <<>> /\ solver.nums = solver.hand)

\* A search that has failed after calls of the full depth: the hand
\* 1, 1, 1, 1 has no solution, and nums and dq are as solve passed them.
C39_Witness ==
    /\ solver.status = "none"
    /\ solver.hand = <<1, 1, 1, 1>>
    /\ solver.dq = <<>>
    /\ solver.nums = solver.hand


\* The number that the decimal text reads.
NumberOf(text) == CHOOSE n \in 1 .. 10 : ToString(n) = text

\* a (operator) b as the operator between two expressions reads.
InfixValue(operator, a, b) ==
    CASE operator = " + " -> DblAdd(a, b)
      [] operator = " - " -> DblSub(a, b)
      [] operator = " * " -> DblMul(a, b)
      [] operator = " / " -> DblDiv(a, b)

\* The expression at the head of text read as a fully parenthesized infix
\* expression, a number or (left operator right): its value, whether each
\* parenthesis is where it has to be, and the text behind it.
RECURSIVE Read(_)
Read(text) ==
    IF Head(text) = "("
    THEN LET left == Read(Tail(text))
             right == Read(Tail(left.rest))
         IN  [value |-> InfixValue(Head(left.rest), left.value, right.value),
              closed |-> /\ left.closed /\ right.closed
                         /\ right.rest # <<>> /\ Head(right.rest) = ")",
              rest |-> Tail(right.rest)]
    ELSE [value |-> Num(NumberOf(Head(text))), closed |-> TRUE,
          rest |-> Tail(text)]

Count(text, piece) == Cardinality({k \in DOMAIN text : text[k] = piece})

\* The text is a fully parenthesized infix expression with a pair of
\* parentheses for each operator of dq and the value of calc(dq), followed
\* by " = 24".
Renders(text, dq) ==
    /\ text[Len(text)] = " = 24"
    /\ LET expression == SubSeq(text, 1, Len(text) - 1)
           operators == Cardinality({k \in DOMAIN dq : dq[k] < 0})
       IN  /\ Count(expression, "(") = operators
           /\ Count(expression, ")") = operators
           /\ Read(expression).closed
           /\ Read(expression).rest = <<>>
           /\ Read(expression).value = calc(dq)

\* C31 for convert of the page: the sequence solve returns is rendered, and
\* the empty sequence gives "No solution.".
C31_PageRenders ==
    /\ solver.status = "found" => Renders(convert(Solution), Solution)
    /\ solver.status = "none" => convert(Solution) = <<"No solution.">>

\* C31: for every 7-token sequence solve produces, convert renders a fully
\* parenthesized infix expression, a pair of parentheses for each operator
\* and the second-popped value on the left, followed by " = 24", whose
\* value read as infix is that of calc; for the empty sequence convert
\* returns "No solution.".  This is required of convert of the page and of
\* convert of Solver.java, each on what its solve returns.
C31_ConvertRenders ==
    /\ C31_PageRenders
    /\ solver.status = "found" =>
           Renders(Solver_convert(Solver_solve(solver)), Solution)
    /\ solver.status = "none" =>
           Solver_convert(Solver_solve(solver)) = <<"No solution.">>


\* What solve of the page and solve of Solver.java return correspond: the
\* same tokens, or the empty array and null.
Corresponds(array, deque) ==
    IF deque.isNull THEN array = <<>>
    ELSE array # <<>> /\ array = deque.elems

\* C40: solve of the page and solve of Solver.java are equivalent.  Both
\* start the search of a hand with the same call; from every place of the
\* search that the page reaches, the step of Solver.java (its recurse with
\* its eval) is the step the page takes (its recurse with its calc), so
\* they visit the same candidates in the same order; and what they return
\* corresponds, null to the empty array.
C40_SolversAgree ==
    /\ solver = Solver_start(solver.hand)
    /\ [][solver.status = "running" => solver' = Solver_recurse(solver)]_vars
    /\ [](solver.status \in {"found", "none"} =>
             Corresponds(Solution, Solver_solve(solver)))

\* Both have solved the hand 3, 3, 8, 8 with 8 / (3 - 8 / 3).
C40_Witness ==
    /\ solver.status = "found"
    /\ solver.hand = <<3, 3, 8, 8>>
    /\ Solver_solve(solver) = Deque(<<8, 3, 8, 3, -4, -2, -4>>)
    /\ Solver_eval(solver.dq) = calc(solver.dq)

=============================================================================
